---- MODULE Spec2Model ----
(***************************************************************************)
(* Prime Terrain API (fractal-core): the sieve engine with its shared      *)
(* cache, the neighborhood computation, the canonical JSON codec, hashing  *)
(* and signing, the verify endpoint, the BIN v1 / varint codecs, the       *)
(* in-memory job queue and the API keys in KV storage.                     *)
(*                                                                         *)
(* Conventions.  JS arrays are TLA+ sequences (JS index i is TLA+ index    *)
(* i+1).  A JS value that may be undefined is an option: <<>> for          *)
(* undefined, <<x>> for x.  A call is one action; it records its           *)
(* arguments in `call` and its outcome in `ret` (status "ok", "throws" or  *)
(* "diverges").                                                            *)
(***************************************************************************)
EXTENDS Integers, Sequences, FiniteSets, TLC

VARIABLES cachedPrimes, sieveLimit, signingKeys, call, ret,
          jobs, posts, usersKv, requests

vars == <<cachedPrimes, sieveLimit, signingKeys, call, ret, jobs, posts, usersKv, requests>>

\* The job queue with the POST /jobs handlers in flight, and the key store
\* with the requests in flight that use it
service == <<jobs, posts, usersKv, requests>>

None == <<>>
Some(x) == <<x>>

Max(a, b) == IF a >= b THEN a ELSE b
Min(a, b) == IF a <= b THEN a ELSE b
Abs(a) == IF a < 0 THEN -a ELSE a

(***************************************************************************)
(* Bounds of the model.  Three of the engine's constants are scaled down   *)
(* so that the whole sieve is enumerable: the source clamps the sieve at   *)
(* 10_000_000 (maxLimit), grows it by a margin of 10000 (SieveMargin) and  *)
(* looks 1000 ahead (LookAhead).  The other bounds size the inputs.        *)
(***************************************************************************)
maxLimit == 600
SieveMargin == 10
LookAhead == 3
MaxSmall == 12
MaxK == 3
MaxW == 4
MaxHandlers == 3
MaxRequests == 3
MaxJobs == 3

(***************************************************************************)
(* Sieve engine: src/api/src/services/usage-tracker.ts                     *)
(***************************************************************************)

\* Inner marking loops of the Sieve of Eratosthenes, for i = from, from+1, ...
RECURSIVE sieveMark(_, _, _)
sieveMark(i, n, isPrime) ==
  IF i * i <= n
    THEN sieveMark(i + 1, n,
           IF isPrime[i] = 1
             THEN [j \in 0..n |-> IF j >= i * i /\ (j - i * i) % i = 0 THEN 0 ELSE isPrime[j]]
             ELSE isPrime)
    ELSE isPrime

sieveRun(n) ==
  LET isPrime == sieveMark(2, n, [j \in 0..n |-> IF j < 2 THEN 0 ELSE 1])
  IN  SelectSeq([i \in 1..n |-> i], LAMBDA i : isPrime[i] = 1)

\* sieveRun tabulated once for every size the clamp lets through
sieveTable == [n \in 2..maxLimit |-> sieveRun(n)]

sieve(limit) ==
  IF limit < 2 THEN <<>>
  ELSE sieveTable[IF limit > maxLimit THEN maxLimit ELSE limit]

\* The engine state threaded through a call
Engine(primes, limit) == [cachedPrimes |-> primes, sieveLimit |-> limit]

\* A sieve that is rebuilt for every request, also for a smaller one
ensureSievedAfresh(e, limit) ==
  LET newLimit == limit + SieveMargin
  IN  Engine(sieve(newLimit), IF newLimit > 0 THEN newLimit ELSE 0)

ensureSieved(e, limit) ==
  IF limit <= e.sieveLimit THEN e
  ELSE LET newLimit == limit + SieveMargin
       IN  Engine(sieve(newLimit), newLimit)

RECURSIVE binarySearchLoop(_, _, _, _)
binarySearchLoop(arr, target, lo, hi) ==
  IF lo <= hi
    THEN LET mid == (lo + hi) \div 2
         IN  IF arr[mid + 1] = target THEN mid
             ELSE IF arr[mid + 1] < target THEN binarySearchLoop(arr, target, mid + 1, hi)
             ELSE binarySearchLoop(arr, target, lo, mid - 1)
    ELSE -1

binarySearch(arr, target) == binarySearchLoop(arr, target, 0, Len(arr) - 1)

RECURSIVE lowerBoundLoop(_, _, _, _)
lowerBoundLoop(arr, target, lo, hi) ==
  IF lo < hi
    THEN LET mid == (lo + hi) \div 2
         IN  IF arr[mid + 1] < target THEN lowerBoundLoop(arr, target, mid + 1, hi)
             ELSE lowerBoundLoop(arr, target, lo, mid)
    ELSE lo

lowerBound(arr, target) == lowerBoundLoop(arr, target, 0, Len(arr))

\* arr[i] of a JS array: undefined outside 0..length-1
At(arr, i) == IF 0 <= i /\ i < Len(arr) THEN Some(arr[i + 1]) ELSE None

\* arr.slice(from, to) for 0 <= from, to <= length
Slice(arr, from, to) == IF from < to THEN SubSeq(arr, from + 1, to) ELSE <<>>

\* Math.ceil((index + 1) * Math.log(index + 2) * 1.3) for index = -1, 0, ..., 130
pntTable ==
  <<
    0, 1, 3, 6, 9, 12, 16, 19, 23, 27, 32, 36, 41, 45, 50, 55,
    59, 64, 69, 74, 80, 85, 90, 96, 101, 106, 112, 117, 123, 129, 134, 140,
    146, 152, 158, 164, 169, 175, 181, 188, 194, 200, 206, 212, 218, 224, 231, 237,
    243, 250, 256, 262, 269, 275, 282, 288, 295, 301, 308, 315, 321, 328, 334, 341,
    348, 355, 361, 368, 375, 382, 388, 395, 402, 409, 416, 423, 430, 437, 444, 451,
    458, 465, 472, 479, 486, 493, 500, 507, 514, 521, 528, 535, 543, 550, 557, 564,
    571, 579, 586, 593, 600, 608, 615, 622, 630, 637, 644, 652, 659, 667, 674, 681,
    689, 696, 704, 711, 719, 726, 734, 741, 749, 756, 764, 771, 779, 786, 794, 802,
    809, 817, 824, 832
  >>

pntEstimate(index) == pntTable[index + 2]

EstimateFloor == 100

primesUpTo(e, limit) ==
  LET e1 == ensureSieved(e, limit)
      idx == lowerBound(e1.cachedPrimes, limit + 1)
  IN  [status |-> "ok", e |-> e1, out |-> Slice(e1.cachedPrimes, 0, idx)]

\* The loop `while (cachedPrimes.length <= index)`.  Once sieveLimit has
\* passed the clamp the cache is sieve(maxLimit) and no further doubling can
\* add a prime: the loop then never ends.
RECURSIVE primeAtIndexLoop(_, _, _)
primeAtIndexLoop(e, estimate, index) ==
  IF Len(e.cachedPrimes) <= index
    THEN IF e.sieveLimit >= maxLimit
           THEN [status |-> "diverges", e |-> e, out |-> None]
           ELSE primeAtIndexLoop(ensureSieved(e, estimate * 2), estimate * 2, index)
    ELSE [status |-> "ok", e |-> e, out |-> At(e.cachedPrimes, index)]

\* A lookup that takes the index as 1-based
primeAtIndexOneBased(e, index) ==
  IF index < -1 THEN [status |-> "throws", e |-> e, out |-> None]
  ELSE LET estimate == Max(EstimateFloor, pntEstimate(index))
           r == primeAtIndexLoop(ensureSieved(e, estimate), estimate, index)
       IN  IF r.status = "ok" THEN [r EXCEPT !.out = At(r.e.cachedPrimes, index - 1)] ELSE r

\* index <= -2 makes the estimate Infinity or NaN, and BigInt() of it throws
primeAtIndex(e, index) ==
  IF index < -1 THEN [status |-> "throws", e |-> e, out |-> None]
  ELSE LET estimate == Max(EstimateFloor, pntEstimate(index))
       IN  primeAtIndexLoop(ensureSieved(e, estimate), estimate, index)

primesInRange(e, start, end) ==
  IF start > end THEN [status |-> "ok", e |-> e, out |-> <<>>]
  ELSE LET e1 == ensureSieved(e, end)
           startIdx == lowerBound(e1.cachedPrimes, start)
           endIdx == lowerBound(e1.cachedPrimes, end + 1)
       IN  [status |-> "ok", e |-> e1, out |-> Slice(e1.cachedPrimes, startIdx, endIdx)]

indexOfPrime(e, p) ==
  LET e1 == ensureSieved(e, p)
  IN  [status |-> "ok", e |-> e1, out |-> binarySearch(e1.cachedPrimes, p)]

\* A primality test that turns away 2 as well
isPrimeAboveTwo(e, n) ==
  IF n <= 2 THEN [status |-> "ok", e |-> e, out |-> FALSE]
  ELSE LET e1 == ensureSieved(e, n)
       IN  [status |-> "ok", e |-> e1, out |-> binarySearch(e1.cachedPrimes, n) >= 0]

\* A primality test that looks only at what the cache happens to hold
isPrimeFromCache(e, n) ==
  IF n < 2 THEN [status |-> "ok", e |-> e, out |-> FALSE]
  ELSE [status |-> "ok", e |-> e, out |-> binarySearch(e.cachedPrimes, n) >= 0]

isPrime(e, n) ==
  IF n < 2 THEN [status |-> "ok", e |-> e, out |-> FALSE]
  ELSE LET e1 == ensureSieved(e, n)
       IN  [status |-> "ok", e |-> e1, out |-> binarySearch(e1.cachedPrimes, n) >= 0]

\* A window loop that stops before endIdx
WindowIndicesOpen(startIdx, endIdx, length) ==
  LET last == Min(endIdx - 1, length - 1)
  IN  IF startIdx <= last THEN [j \in 1..(last - startIdx + 1) |-> startIdx + j - 1] ELSE <<>>

\* for (i = startIdx; i <= endIdx && i < cachedPrimes.length; i++)
WindowIndices(startIdx, endIdx, length) ==
  LET last == Min(endIdx, length - 1)
  IN  IF startIdx <= last THEN [j \in 1..(last - startIdx + 1) |-> startIdx + j - 1] ELSE <<>>

primesAroundIndex(e, index, k) ==
  LET startIdx == Max(0, index - k)
      endIdx == index + k
      r == primeAtIndex(e, endIdx)
  IN  IF r.status # "ok" THEN [status |-> r.status, e |-> r.e, primes |-> <<>>, indices |-> <<>>]
      ELSE LET indices == WindowIndices(startIdx, endIdx, Len(r.e.cachedPrimes))
           IN  [status |-> "ok", e |-> r.e,
                primes |-> [j \in DOMAIN indices |-> r.e.cachedPrimes[indices[j] + 1]],
                indices |-> indices]

primesAroundValue(e, center, w) ==
  LET start == IF center - w > 2 THEN center - w ELSE 2
      end == center + w
      e1 == ensureSieved(e, end)
      startIdx == lowerBound(e1.cachedPrimes, start)
      endIdx == lowerBound(e1.cachedPrimes, end + 1)
      indices == WindowIndices(startIdx, endIdx - 1, Len(e1.cachedPrimes))
  IN  [status |-> "ok", e |-> e1,
       primes |-> [j \in DOMAIN indices |-> e1.cachedPrimes[indices[j] + 1]],
       indices |-> indices]

\* A closest-prime lookup that breaks ties toward the upper prime
closestPrimeTieUp(e, n) ==
  IF n < 2 THEN [status |-> "ok", e |-> e, prime |-> Some(2), index |-> 0]
  ELSE
    LET e1 == ensureSieved(e, n + LookAhead)
        c == e1.cachedPrimes
        idx == lowerBound(c, n)
    IN  IF idx < Len(c) /\ c[idx + 1] = n
          THEN [status |-> "ok", e |-> e1, prime |-> Some(n), index |-> idx]
        ELSE IF idx = 0
          THEN [status |-> "ok", e |-> e1, prime |-> At(c, 0), index |-> 0]
        ELSE IF idx >= Len(c)
          THEN [status |-> "ok", e |-> e1, prime |-> At(c, Len(c) - 1), index |-> Len(c) - 1]
        ELSE IF n - c[idx] < c[idx + 1] - n
          THEN [status |-> "ok", e |-> e1, prime |-> Some(c[idx]), index |-> idx - 1]
        ELSE [status |-> "ok", e |-> e1, prime |-> Some(c[idx + 1]), index |-> idx]

closestPrime(e, n) ==
  IF n < 2 THEN [status |-> "ok", e |-> e, prime |-> Some(2), index |-> 0]
  ELSE
    LET e1 == ensureSieved(e, n + LookAhead)
        c == e1.cachedPrimes
        idx == lowerBound(c, n)
    IN  IF idx < Len(c) /\ c[idx + 1] = n
          THEN [status |-> "ok", e |-> e1, prime |-> Some(n), index |-> idx]
        ELSE IF idx = 0
          THEN [status |-> "ok", e |-> e1, prime |-> At(c, 0), index |-> 0]
        ELSE IF idx >= Len(c)
          THEN [status |-> "ok", e |-> e1, prime |-> At(c, Len(c) - 1), index |-> Len(c) - 1]
        ELSE LET lower == c[idx]
                 upper == c[idx + 1]
             IN  IF n - lower <= upper - n
                   THEN [status |-> "ok", e |-> e1, prime |-> Some(lower), index |-> idx - 1]
                   ELSE [status |-> "ok", e |-> e1, prime |-> Some(upper), index |-> idx]

\* The defect HANDOFF.md records as fixed: the nearest prime instead of the next
nextPrimeNearest(e, n) == closestPrime(e, n)

nextPrime(e, n) ==
  IF n < 2 THEN [status |-> "ok", e |-> e, prime |-> Some(2), index |-> 0]
  ELSE
    LET e1 == ensureSieved(e, n + LookAhead)
        idx == lowerBound(e1.cachedPrimes, n)
    IN  IF idx < Len(e1.cachedPrimes)
          THEN [status |-> "ok", e |-> e1, prime |-> At(e1.cachedPrimes, idx), index |-> idx]
          ELSE LET e2 == ensureSieved(e1, n * 2)
                   newIdx == lowerBound(e2.cachedPrimes, n)
               IN  [status |-> "ok", e |-> e2, prime |-> At(e2.cachedPrimes, newIdx), index |-> newIdx]

(***************************************************************************)
(* Decimal strings of bigints.  A JS string is a sequence of one-character *)
(* strings.                                                                *)
(***************************************************************************)
Digits == <<"0", "1", "2", "3", "4", "5", "6", "7", "8", "9">>

IsDigit(c) == \E d \in 1..10 : Digits[d] = c

DigitValue(c) == (CHOOSE d \in 1..10 : Digits[d] = c) - 1

RECURSIVE natToString(_)
natToString(n) ==
  IF n < 10 THEN <<Digits[n + 1]>>
  ELSE Append(natToString(n \div 10), Digits[(n % 10) + 1])

\* BigInt.prototype.toString(): a sign only if negative, no leading zeros
bigintToString(n) == IF n < 0 THEN <<"-">> \o natToString(-n) ELSE natToString(n)

RECURSIVE digitsToNat(_, _)
digitsToNat(s, acc) ==
  IF s = <<>> THEN acc ELSE digitsToNat(Tail(s), acc * 10 + DigitValue(Head(s)))

AllDigits(s) == s # <<>> /\ \A i \in DOMAIN s : IsDigit(s[i])

\* BigInt(string): Some(value), or None where the constructor throws a
\* SyntaxError.  The empty string is 0n; a sign needs digits after it.
BigIntOfString(s) ==
  IF s = <<>> THEN Some(0)
  ELSE IF AllDigits(s) THEN Some(digitsToNat(s, 0))
  ELSE IF Head(s) \in {"-", "+"} /\ AllDigits(Tail(s))
    THEN Some(IF Head(s) = "-" THEN -digitsToNat(Tail(s), 0) ELSE digitsToNat(Tail(s), 0))
  ELSE None

(***************************************************************************)
(* Neighborhood computation: src/unnamed/part_002                          *)
(* (services/neighborhood.ts)                                              *)
(***************************************************************************)

\* BigInt division truncates toward zero; the remainder has the dividend's sign
jsDiv(a, b) == IF (a < 0) # (b < 0) THEN -(Abs(a) \div Abs(b)) ELSE Abs(a) \div Abs(b)
jsRem(a, b) == a - b * jsDiv(a, b)

RECURSIVE gcdLoop(_, _)
gcdLoop(a, b) == IF b # 0 THEN gcdLoop(b, jsRem(a, b)) ELSE a

\* A gcd that forgets to reduce
gcdOne(a, b) == 1

gcd(a, b) == gcdLoop(Abs(a), Abs(b))

rational(num, den) ==
  IF den = 0 THEN [status |-> "throws"]
  ELSE LET num1 == IF den < 0 THEN -num ELSE num
           den1 == IF den < 0 THEN -den ELSE den
           g == gcd(num1, den1)
       IN  [status |-> "ok", num |-> bigintToString(jsDiv(num1, g)), den |-> bigintToString(jsDiv(den1, g))]

DefaultK == 10
DefaultW == 100

\* A difference loop that stops one short
DifferencesShort(xs) == [i \in 1..(Len(xs) - 2) |-> xs[i + 1] - xs[i]]

\* for (i = 0; i < xs.length - 1; i++) out.push(xs[i + 1] - xs[i])
Differences(xs) == [i \in 1..(Len(xs) - 1) |-> xs[i + 1] - xs[i]]

NoData(status, e) ==
  [status |-> status, e |-> e, centerIndex |-> 0, centerPrime |-> None,
   primes |-> <<>>, indices |-> <<>>, gaps |-> <<>>, d2 |-> <<>>, ratios |-> <<>>]

\* The center: primeAtIndex(Number(n)) or nextPrime(n)
resolveCenter(e, options) ==
  IF options.nType = "index"
    THEN LET r == primeAtIndex(e, options.n)
         IN  [status |-> r.status, e |-> r.e, prime |-> r.out, index |-> options.n]
    ELSE nextPrime(e, options.n)

\* The window: `undefined - w` is a TypeError when the center prime is undefined
selectWindow(e, options, center) ==
  IF options.mode = "count"
    THEN primesAroundIndex(e, center.index, IF options.k = None THEN DefaultK ELSE options.k[1])
  ELSE IF center.prime = None
    THEN [status |-> "throws", e |-> e, primes |-> <<>>, indices |-> <<>>]
  ELSE primesAroundValue(e, center.prime[1], IF options.w = None THEN DefaultW ELSE options.w[1])

computeNeighborhood(e, options) ==
  LET center == resolveCenter(e, options)
  IN  IF center.status # "ok" THEN NoData(center.status, center.e)
      ELSE
        LET window == selectWindow(center.e, options, center)
        IN  IF window.status # "ok" THEN NoData(window.status, window.e)
            ELSE
              LET primes == window.primes
                  gaps == Differences(primes)
                  d2 == Differences(gaps)
                  ratios == [i \in DOMAIN d2 |-> rational(d2[i], primes[i + 2] - primes[i])]
              IN  IF \E i \in DOMAIN ratios : ratios[i].status # "ok"
                    THEN NoData("throws", window.e)
                    ELSE [status |-> "ok", e |-> window.e,
                          centerIndex |-> center.index, centerPrime |-> center.prime,
                          primes |-> primes, indices |-> window.indices,
                          gaps |-> gaps, d2 |-> d2,
                          ratios |-> [i \in DOMAIN ratios |-> [num |-> ratios[i].num, den |-> ratios[i].den]]]

(***************************************************************************)
(* The engine as a state machine.  One call runs at a time (the service is *)
(* synchronous); Return hands the outcome to the caller.  A call that      *)
(* never ends leaves the process in it for good.                           *)
(***************************************************************************)
\* Anchor values: the small ones, the test suite's, and those around the clamp
Values == (-1..MaxSmall) \cup {13, 20, 24, 50, 100, 300} \cup ((maxLimit - 8)..(maxLimit + 2))

\* Indices: the small ones, the end-to-end scenario's, and those around the
\* last prime under the clamp
Indices == (-2..MaxSmall) \cup {97, 100} \cup {Len(sieve(maxLimit)) + d : d \in -2..1}

\* k is a positive integer (schemas/query-params.ts), w any bigint
Ks == {None} \cup {Some(k) : k \in 1..MaxK}
Ws == {None} \cup {Some(w) : w \in -1..MaxW}

Cur == Engine(cachedPrimes, sieveLimit)

Idle == call.op = "idle"

Outcome(r) == [f \in (DOMAIN r) \ {"e"} |-> r[f]]

Finish(op, args, r) ==
  /\ Idle
  /\ call' = [op |-> op, args |-> args]
  /\ ret' = Outcome(r)
  /\ cachedPrimes' = r.e.cachedPrimes
  /\ sieveLimit' = r.e.sieveLimit
  /\ UNCHANGED <<signingKeys, service>>

\* The service around the engine before its first request: no job, no POST
\* /jobs handler of any caller (the anonymous one or a user) in flight, one active API key in KV storage and no request
\* in flight that uses it
UserIds == {None, Some("alice")}

RequestIds == 1..MaxRequests

StoredKey == [status |-> "active", last_used_at |-> None]

InitService ==
  /\ jobs = <<>>
  /\ posts = [userId \in UserIds |-> 0]
  /\ usersKv = Some(StoredKey)
  /\ requests = [r \in RequestIds |-> [pc |-> "idle"]]

InitEngine ==
  /\ cachedPrimes = <<>>
  /\ sieveLimit = 0
  /\ signingKeys = None
  /\ call = [op |-> "idle"]
  /\ ret = [status |-> "none"]
  /\ InitService

CallPrimesUpTo == Idle /\ \E limit \in Values : Finish("primesUpTo", [limit |-> limit], primesUpTo(Cur, limit))

CallPrimeAtIndex == Idle /\ \E index \in Indices : Finish("primeAtIndex", [index |-> index], primeAtIndex(Cur, index))

CallPrimesInRange ==
  /\ Idle
  /\ \E start \in Values, len \in -1..MaxW :
    Finish("primesInRange", [start |-> start, end |-> start + len], primesInRange(Cur, start, start + len))

CallIndexOfPrime == Idle /\ \E p \in Values : Finish("indexOfPrime", [p |-> p], indexOfPrime(Cur, p))

CallIsPrime == Idle /\ \E n \in Values : Finish("isPrime", [n |-> n], isPrime(Cur, n))

CallPrimesAroundIndex ==
  /\ Idle
  /\ \E index \in Indices, k \in 1..MaxK :
    Finish("primesAroundIndex", [index |-> index, k |-> k], primesAroundIndex(Cur, index, k))

CallPrimesAroundValue ==
  /\ Idle
  /\ \E center \in Values, w \in -1..MaxW :
    Finish("primesAroundValue", [center |-> center, w |-> w], primesAroundValue(Cur, center, w))

CallClosestPrime == Idle /\ \E n \in Values : Finish("closestPrime", [n |-> n], closestPrime(Cur, n))

CallNextPrime == Idle /\ \E n \in Values : Finish("nextPrime", [n |-> n], nextPrime(Cur, n))

Options ==
  [n : Values, nType : {"value"}, mode : {"count"}, k : Ks, w : {None}]
    \cup [n : Values, nType : {"value"}, mode : {"span"}, k : {None}, w : Ws]
    \cup [n : Indices, nType : {"index"}, mode : {"count"}, k : Ks, w : {None}]
    \cup [n : Indices, nType : {"index"}, mode : {"span"}, k : {None}, w : Ws]

CallComputeNeighborhood ==
  /\ Idle
  /\ \E options \in Options : Finish("computeNeighborhood", options, computeNeighborhood(Cur, options))

Return ==
  /\ ~Idle
  /\ ret.status # "diverges"
  /\ call' = [op |-> "idle"]
  /\ ret' = [status |-> "none"]
  /\ UNCHANGED <<cachedPrimes, sieveLimit, signingKeys, service>>

NextEngine ==
  \/ CallPrimesUpTo
  \/ CallPrimeAtIndex
  \/ CallPrimesInRange
  \/ CallIndexOfPrime
  \/ CallIsPrime
  \/ CallPrimesAroundIndex
  \/ CallPrimesAroundValue
  \/ CallClosestPrime
  \/ CallNextPrime
  \/ CallComputeNeighborhood
  \/ Return

SpecEngine == InitEngine /\ [][NextEngine]_vars

\* Arithmetic meaning of the engine's answers, independent of the sieve: the
\* primes by trial division, among all the numbers a call can mention
PrimeNumbers == {p \in 2..(2 * maxLimit) : \A d \in 2..(p - 1) : p % d # 0}

IsPrimeNumber(p) == p \in PrimeNumbers

\* The number of primes below p: the 0-based index of p when p is prime
PrimesBelow(p) == Cardinality({q \in PrimeNumbers : q < p})

TypeOKEngine ==
  /\ sieveLimit \in Nat
  /\ cachedPrimes \in Seq(Nat)
  /\ ret.status \in {"none", "ok", "throws", "diverges"}

(***************************************************************************)
(* Claims about the engine and the neighborhood computation                *)
(***************************************************************************)

\* p is the smallest prime >= n
SmallestPrimeFrom(n, p) ==
  /\ p >= n
  /\ IsPrimeNumber(p)
  /\ \A q \in n..(p - 1) : ~IsPrimeNumber(q)

\* The answer {prime, index} is the smallest prime >= n with its 0-based index
NextPrimeAnswer(n, prime, index) ==
  /\ prime # None
  /\ SmallestPrimeFrom(n, prime[1])
  /\ index = PrimesBelow(prime[1])
  /\ (IsPrimeNumber(n) => prime[1] = n)
  /\ (n < 2 => prime[1] = 2 /\ index = 0)

\* Some prime >= n lies under the sieve's clamp
PrimeUnderClamp(n) == \E p \in n..maxLimit : IsPrimeNumber(p)

\* C7 as stated: for EVERY integer n, whatever the cache holds, nextPrime(n)
\* returns the smallest prime p >= n with p's 0-based index (n itself when n
\* is prime, prime 2 with index 0 when n < 2, never a prime below n).
C7_NextPrimeEveryInteger ==
  call.op = "nextPrime" => NextPrimeAnswer(call.args.n, ret.prime, ret.index)

\* C7 amended: the same, for every integer n that is not above the largest
\* prime under the sieve's clamp.
C7_NextPrimeUnderClamp ==
  (call.op = "nextPrime" /\ PrimeUnderClamp(call.args.n))
    => NextPrimeAnswer(call.args.n, ret.prime, ret.index)

\* C7 witness: nextPrime(20) answered 23 (index 8), not the nearer 19, from a
\* cache that an earlier call had already grown past what this call asks for.
C7_Witness ==
  /\ call.op = "nextPrime"
  /\ call.args.n = 20
  /\ ret.prime = Some(23)
  /\ ret.index = 8
  /\ sieveLimit > 20 + LookAhead + SieveMargin

\* C8: computeNeighborhood resolves its center by the stated policy: with
\* n_type = index the center index is n and the center prime is the prime at
\* index n (what primeAtIndex answers: the prime with exactly n primes below
\* it, undefined for n = -1); with n_type = value the center prime is the
\* smallest prime >= n, never a smaller one, and the center index is that
\* prime's 0-based index.
C8_CenterPolicy ==
  (call.op = "computeNeighborhood" /\ ret.status = "ok") =>
    /\ call.args.nType = "index" =>
         /\ ret.centerIndex = call.args.n
         /\ call.args.n >= 0 =>
              /\ ret.centerPrime # None
              /\ IsPrimeNumber(ret.centerPrime[1])
              /\ PrimesBelow(ret.centerPrime[1]) = call.args.n
         /\ call.args.n < 0 => ret.centerPrime = None
    /\ call.args.nType = "value" =>
         NextPrimeAnswer(call.args.n, ret.centerPrime, ret.centerIndex)

\* C8 witness: value 24 is centred on 29 (index 9) although 23 is nearer.
C8_Witness ==
  /\ call.op = "computeNeighborhood"
  /\ ret.status = "ok"
  /\ call.args.nType = "value"
  /\ call.args.n = 24
  /\ ret.centerPrime = Some(29)
  /\ ret.centerIndex = 9

\* C9: every neighborhood computeNeighborhood returns has max(0, |primes|-1)
\* gaps with gaps[i] = primes[i+1] - primes[i], max(0, |primes|-2) second
\* differences with d2[i] = gaps[i+1] - gaps[i], and as many ratios as second
\* differences, nothing padded; a window of 0, 1 or 2 primes does not make
\* the call throw (it throws only when the center cannot be resolved).
C9_DerivedSequences ==
  call.op = "computeNeighborhood" =>
    /\ ret.status = "ok" =>
         /\ Len(ret.gaps) = Max(0, Len(ret.primes) - 1)
         /\ \A i \in DOMAIN ret.gaps : ret.gaps[i] = ret.primes[i + 1] - ret.primes[i]
         /\ Len(ret.d2) = Max(0, Len(ret.primes) - 2)
         /\ \A i \in DOMAIN ret.d2 : ret.d2[i] = ret.gaps[i + 1] - ret.gaps[i]
         /\ Len(ret.ratios) = Len(ret.d2)
    /\ ret.status = "throws" =>
         \/ call.args.nType = "index" /\ call.args.n < 0
         \/ call.args.nType = "value" /\ ~PrimeUnderClamp(call.args.n)

\* C9 witness: a returned window of exactly two primes, with its one gap and
\* no second difference.
C9_Witness ==
  /\ call.op = "computeNeighborhood"
  /\ ret.status = "ok"
  /\ Len(ret.primes) = 2
  /\ Len(ret.gaps) = 1
  /\ ret.d2 = <<>>
  /\ ret.ratios = <<>>

\* s is the decimal string of an integer, in BigInt's own format
IsDecimal(s) == BigIntOfString(s) # None /\ bigintToString(BigIntOfString(s)[1]) = s

\* C10: every ratio[i] of a returned neighborhood is d2[i] / (primes[i+2] -
\* primes[i]) in lowest terms: denominator > 0, gcd(|num|, den) = 1, num/den
\* equal to that quotient, and -den <= num <= den.
C10_RatioReduced ==
  (call.op = "computeNeighborhood" /\ ret.status = "ok") =>
    \A i \in DOMAIN ret.ratios :
      /\ IsDecimal(ret.ratios[i].num)
      /\ IsDecimal(ret.ratios[i].den)
      /\ LET num == BigIntOfString(ret.ratios[i].num)[1]
             den == BigIntOfString(ret.ratios[i].den)[1]
         IN  /\ den > 0
             /\ \A d \in 2..den : ~(num % d = 0 /\ den % d = 0)
             /\ num * (ret.primes[i + 2] - ret.primes[i]) = ret.d2[i] * den
             /\ -den <= num /\ num <= den

\* C10 witness: primes 7, 11, 13 give d2 = -2 over a span of 6, returned as -1/3.
C10_Witness ==
  /\ call.op = "computeNeighborhood"
  /\ ret.status = "ok"
  /\ \E i \in DOMAIN ret.ratios :
       /\ ret.d2[i] = -2
       /\ ret.primes[i + 2] - ret.primes[i] = 6
       /\ ret.ratios[i] = [num |-> <<"-", "1">>, den |-> <<"3">>]

\* The consecutive run lo, lo+1, ..., hi
Run(lo, hi) == IF lo <= hi THEN [j \in 1..(hi - lo + 1) |-> lo + j - 1] ELSE <<>>

Elements(xs) == {xs[j] : j \in DOMAIN xs}

\* primes[j] is the prime whose 0-based index is indices[j], for every j
PairedWithIndices(primes, indices) ==
  /\ Len(primes) = Len(indices)
  /\ \A j \in DOMAIN primes : IsPrimeNumber(primes[j]) /\ PrimesBelow(primes[j]) = indices[j]

\* The window of count mode around index c
CountWindow(c, k, primes, indices) ==
  /\ indices = Run(Max(0, c - k), c + k)
  /\ (c >= k => Len(indices) = 2 * k + 1)
  /\ PairedWithIndices(primes, indices)

\* The window of span mode around p
SpanWindow(p, w, primes, indices) ==
  /\ Elements(primes) = {q \in PrimeNumbers : Max(2, p - w) <= q /\ q <= p + w}
  /\ \A j \in 1..(Len(primes) - 1) : primes[j] < primes[j + 1]
  /\ PairedWithIndices(primes, indices)

\* The window a returned call is about, as <<mode, center, size>>: of the
\* engine's two window calls and of computeNeighborhood
WindowAsked ==
  IF call.op = "primesAroundIndex" THEN <<"count", Some(call.args.index), call.args.k>>
  ELSE IF call.op = "primesAroundValue" THEN <<"span", Some(call.args.center), call.args.w>>
  ELSE IF call.args.mode = "count"
    THEN <<"count", Some(ret.centerIndex), IF call.args.k = None THEN DefaultK ELSE call.args.k[1]>>
  ELSE <<"span", ret.centerPrime, IF call.args.w = None THEN DefaultW ELSE call.args.w[1]>>

WindowReturned ==
  /\ call.op \in {"primesAroundIndex", "primesAroundValue", "computeNeighborhood"}
  /\ ret.status = "ok"

WindowAsAsked(asked) ==
  /\ asked[2] # None
  /\ IF asked[1] = "count"
       THEN CountWindow(asked[2][1], asked[3], ret.primes, ret.indices)
       ELSE SpanWindow(asked[2][1], asked[3], ret.primes, ret.indices)

\* The center of the window asked for is in the window returned
CenterInWindow(asked) ==
  IF asked[1] = "count" THEN asked[2][1] \in Elements(ret.indices)
  ELSE asked[2][1] \in Elements(ret.primes)

WindowUnderClamp(asked) ==
  IF asked[1] = "count" THEN asked[2][1] >= 0
  ELSE /\ asked[3] >= 0
       /\ IsPrimeNumber(asked[2][1])
       /\ asked[2][1] + asked[3] <= maxLimit

PrimesUnderClamp == Cardinality({p \in PrimeNumbers : p <= maxLimit})

\* The call answered the index-th prime, counted from index 0, out of a
\* cache that holds at least index + 1 primes
PrimeAtIndexAnswer(index) ==
  /\ ret.status = "ok"
  /\ ret.out # None
  /\ IsPrimeNumber(ret.out[1])
  /\ PrimesBelow(ret.out[1]) = index
  /\ Len(cachedPrimes) >= index + 1
  /\ cachedPrimes[index + 1] = ret.out[1]

\* C13 as stated: for EVERY index i >= 0, whatever the cache held before,
\* primeAtIndex(i) returns the i-th prime counted from index 0 (index 0 is
\* 2): the doubling loop ends with at least i+1 primes cached and the value at
\* position i is returned.
C13_PrimeAtEveryIndex ==
  (call.op = "primeAtIndex" /\ call.args.index >= 0) => PrimeAtIndexAnswer(call.args.index)

\* C13 amended: the same for every index i >= 0 below the number of primes
\* under the sieve's clamp.
C13_PrimeAtIndexUnderClamp ==
  (call.op = "primeAtIndex" /\ call.args.index >= 0 /\ call.args.index < PrimesUnderClamp)
    => PrimeAtIndexAnswer(call.args.index)

\* C13 witness: primeAtIndex(100) answered 547 out of a cache that an
\* earlier call had left at another size than this call asks for.
C13_Witness ==
  /\ call.op = "primeAtIndex"
  /\ call.args.index = 100
  /\ ret.out = Some(547)
  /\ sieveLimit # Max(EstimateFloor, pntEstimate(100)) + SieveMargin

\* The answer {prime, index} is a prime nearest to n, the lower one of two
\* equally near, with its 0-based index
ClosestPrimeAnswer(n, prime, index) ==
  /\ prime # None
  /\ IsPrimeNumber(prime[1])
  /\ \A q \in PrimeNumbers : Abs(q - n) >= Abs(prime[1] - n)
  /\ \A q \in PrimeNumbers : Abs(q - n) = Abs(prime[1] - n) => prime[1] <= q
  /\ index = PrimesBelow(prime[1])
  /\ (IsPrimeNumber(n) => prime[1] = n)
  /\ (n < 2 => prime[1] = 2)

\* C14 as stated: for EVERY integer n, closestPrime(n) returns a prime p with
\* its 0-based index such that no prime is strictly nearer to n; of two
\* equally near primes it returns the lower; for prime n it returns n, for
\* n < 2 it returns 2.
C14_ClosestPrimeEveryInteger ==
  call.op = "closestPrime" => ClosestPrimeAnswer(call.args.n, ret.prime, ret.index)

\* C14 amended: the same for every integer n that is not above the largest
\* prime under the sieve's clamp.
C14_ClosestPrimeUnderClamp ==
  (call.op = "closestPrime" /\ PrimeUnderClamp(call.args.n))
    => ClosestPrimeAnswer(call.args.n, ret.prime, ret.index)

\* C14 witness: closestPrime(9) answered 7 (index 3), not the equally near 11.
C14_Witness ==
  /\ call.op = "closestPrime"
  /\ call.args.n = 9
  /\ ret.prime = Some(7)
  /\ ret.index = 3

\* The largest prime the clamped sieve can hold (9,999,991 in the source)
LastPrimeUnderClamp == sieve(maxLimit)[Len(sieve(maxLimit))]

\* A neighborhood was asked around a value beyond every prime of the sieve
BeyondCeiling ==
  /\ call.op = "computeNeighborhood"
  /\ call.args.nType = "value"
  /\ call.args.n > LastPrimeUnderClamp

\* C21 as stated: a neighborhood computation whose anchor value lies beyond
\* the sieve ceiling ends with an error: computeNeighborhood terminates by
\* throwing; it neither returns a result nor runs forever.
C21_BeyondCeilingThrows == BeyondCeiling => ret.status = "throws"

\* What the code does beyond the ceiling: nextPrime answers an undefined
\* prime at index cachedPrimes.length; span mode throws on `undefined - w`,
\* count mode never leaves the loop of primeAtIndex.
C21_BeyondCeilingByMode ==
  BeyondCeiling =>
    /\ call.args.mode = "span" => ret.status = "throws"
    /\ call.args.mode = "count" => ret.status = "diverges"

\* The call of the state, made on engine e
EngineCall(e, c) ==
  IF c.op = "primesUpTo" THEN primesUpTo(e, c.args.limit)
  ELSE IF c.op = "primeAtIndex" THEN primeAtIndex(e, c.args.index)
  ELSE IF c.op = "primesInRange" THEN primesInRange(e, c.args.start, c.args.end)
  ELSE IF c.op = "indexOfPrime" THEN indexOfPrime(e, c.args.p)
  ELSE IF c.op = "isPrime" THEN isPrime(e, c.args.n)
  ELSE IF c.op = "primesAroundIndex" THEN primesAroundIndex(e, c.args.index, c.args.k)
  ELSE IF c.op = "primesAroundValue" THEN primesAroundValue(e, c.args.center, c.args.w)
  ELSE IF c.op = "closestPrime" THEN closestPrime(e, c.args.n)
  ELSE IF c.op = "nextPrime" THEN nextPrime(e, c.args.n)
  ELSE computeNeighborhood(e, c.args)

EngineOps ==
  {"primesUpTo", "primeAtIndex", "primesInRange", "indexOfPrime", "isPrime",
   "primesAroundIndex", "primesAroundValue", "closestPrime", "nextPrime", "computeNeighborhood"}

\* C22: every engine query and computeNeighborhood is a function of its
\* arguments only: whatever sequence of earlier calls has shaped the cache,
\* the call returns what the same call returns on a freshly started engine
\* (so the same call returns the same value in any two states of the cache).
C22_ResultIndependentOfCache ==
  call.op \in EngineOps => ret = Outcome(EngineCall(Engine(<<>>, 0), call))

\* C22 witness: isPrime(7) answered true from a cache that earlier calls had
\* grown far beyond what isPrime(7) itself sieves.
C22_Witness ==
  /\ call.op = "isPrime"
  /\ call.args.n = 7
  /\ ret.out
  /\ sieveLimit > maxLimit

\* xs is the ascending list of exactly the primes p <= limit.  (PrimeNumbers
\* reaches 2 * maxLimit; where limit is larger still, the cache of a clamped
\* sieve misses the primes between maxLimit and 2 * maxLimit all the same.)
AscendingPrimesUpTo(xs, limit) ==
  /\ \A i \in 1..(Len(xs) - 1) : xs[i] < xs[i + 1]
  /\ {xs[i] : i \in DOMAIN xs} = {p \in PrimeNumbers : p <= limit}

\* C23 as stated: in every state reachable by any sequence of engine
\* operations, the cached list is exactly the ascending list of all primes
\* p <= sieveLimit, so a lookup for any n <= sieveLimit is answered correctly
\* from the cache.
C23_CacheCoversSieveLimit == AscendingPrimesUpTo(cachedPrimes, sieveLimit)

\* What the code keeps: the cache is the ascending list of the primes up to
\* sieveLimit or the clamp, whichever is smaller; sieveLimit itself runs
\* past the clamp.
C23_CacheCoversClampedLimit == AscendingPrimesUpTo(cachedPrimes, Min(sieveLimit, maxLimit))

\* The consequence C23 draws: an isPrime lookup of an n <= sieveLimit is
\* answered correctly from the cache.  (Violated as well: 601 is prime.)
C23_LookupBelowLimitRight ==
  (call.op = "isPrime" /\ call.args.n <= sieveLimit) => ret.out = IsPrimeNumber(call.args.n)

IsPrefix(xs, ys) == Len(xs) <= Len(ys) /\ \A i \in DOMAIN xs : xs[i] = ys[i]

\* C24: across any sequence of engine operations the cache only grows: after
\* each operation the previous cached prime list is a prefix of the new one
\* and sieveLimit is not smaller than before; no operation shrinks or empties
\* the cache.
C24_CacheOnlyGrows ==
  [][IsPrefix(cachedPrimes, cachedPrimes') /\ sieveLimit' >= sieveLimit]_vars

\* C24 witness: primesUpTo(5), which by itself sieves to 15, was answered
\* from a cache that an earlier call had grown further and that it left as
\* large as it was.
C24_Witness ==
  /\ call.op = "primesUpTo"
  /\ call.args.limit = 5
  /\ ret.out = <<2, 3, 5>>
  /\ sieveLimit > 5 + SieveMargin
  /\ Len(cachedPrimes) > Len(sieve(5 + SieveMargin))

(***************************************************************************)
(* From the request to the result: src/unnamed/part_002                    *)
(* (parseComputeOptions, toNeighborhoodResult) and the self-check of       *)
(* src/api/src/services/validation.ts.  A request carries n and w as       *)
(* decimal strings and include as an array of field names; a result        *)
(* carries each optional section as an option.                             *)
(***************************************************************************)
Str(n) == bigintToString(n)

\* BigInt(request.n) throws on a string that is no integer; an empty w is
\* falsy and counts as undefined
parseComputeOptions(request) ==
  IF BigIntOfString(request.n) = None
       \/ (request.w # None /\ request.w[1] # <<>> /\ BigIntOfString(request.w[1]) = None)
    THEN [status |-> "throws"]
    ELSE [status |-> "ok",
          out |-> [n |-> BigIntOfString(request.n)[1], nType |-> request.n_type,
                   mode |-> request.mode, k |-> request.k,
                   w |-> IF request.w = None \/ request.w[1] = <<>> THEN None
                         ELSE BigIntOfString(request.w[1])]]

\* new Set(request.include).has(field)
Has(include, field) == \E i \in DOMAIN include : include[i] = field

\* xs.map((x) => x.toString())
Strs(xs) == [i \in DOMAIN xs |-> bigintToString(xs[i])]

\* A conversion that gives every section, whatever include names
toNeighborhoodResultAll(request, data) ==
  IF data.centerPrime = None THEN [status |-> "throws"]
  ELSE [status |-> "ok",
        out |-> [n |-> request.n, n_type |-> request.n_type, mode |-> request.mode,
                 center_prime |-> Some(bigintToString(data.centerPrime[1])),
                 primes |-> Some(Strs(data.primes)), gaps |-> Some(Strs(data.gaps)),
                 d2 |-> Some(Strs(data.d2)), ratio |-> Some(data.ratios),
                 indices |-> Some(data.indices)]]

\* `data.centerPrime.toString()` is a TypeError when centerPrime is undefined
toNeighborhoodResult(request, data) ==
  IF data.centerPrime = None THEN [status |-> "throws"]
  ELSE [status |-> "ok",
        out |-> [n |-> request.n, n_type |-> request.n_type, mode |-> request.mode,
                 center_prime |-> Some(bigintToString(data.centerPrime[1])),
                 primes |-> IF Has(request.include, "primes") THEN Some(Strs(data.primes)) ELSE None,
                 gaps |-> IF Has(request.include, "gaps") THEN Some(Strs(data.gaps)) ELSE None,
                 d2 |-> IF Has(request.include, "d2") THEN Some(Strs(data.d2)) ELSE None,
                 ratio |-> IF Has(request.include, "ratio") THEN Some(data.ratios) ELSE None,
                 indices |-> IF Has(request.include, "indices") THEN Some(data.indices) ELSE None]]

\* One entry of the discrepancies: the index and the two conflicting values
Discrepancy(index, engine, value, other, otherValue) ==
  [index |-> index,
   values |-> <<[engine |-> engine, value |-> value], [engine |-> other, value |-> otherValue]>>]

\* expected = xs[i + 1] - xs[i]: a bigint minus undefined is a TypeError,
\* undefined minus undefined is NaN (value undefined here)
expectedDifference(xs, i) ==
  IF i + 1 < Len(xs) THEN [status |-> "ok", value |-> Some(xs[i + 2] - xs[i + 1])]
  ELSE IF i < Len(xs) THEN [status |-> "throws", value |-> None]
  ELSE [status |-> "ok", value |-> None]

\* expected.toString()
expectedString(value) == IF value = None THEN <<"N", "a", "N">> ELSE bigintToString(value[1])

\* The entries of the claimed values that are not the expected ones
differenceEntries(expected, claimed) ==
  LET failing == SelectSeq([i \in DOMAIN claimed |-> i], LAMBDA i : expected[i].value # Some(claimed[i]))
  IN  [j \in DOMAIN failing |->
         Discrepancy(failing[j] - 1, "sieve", expectedString(expected[failing[j]].value),
                     "computed", bigintToString(claimed[failing[j]]))]

\* for (i = 0; i < claimed.length; i++) if (claimed[i] !== xs[i + 1] - xs[i]) push
differenceCheck(xs, claimed) ==
  IF \E i \in DOMAIN claimed : expectedDifference(xs, i - 1).status # "ok"
    THEN [status |-> "throws", out |-> <<>>]
    ELSE [status |-> "ok",
          out |-> differenceEntries(<<>> \o [i \in DOMAIN claimed |-> expectedDifference(xs, i - 1)], claimed)]

\* for (i = 0; i < primes.length; i++) if (!sieveEngine.isPrime(primes[i])) push
RECURSIVE primalityCheck(_, _, _, _)
primalityCheck(e, primes, i, sofar) ==
  IF i >= Len(primes) THEN [e |-> e, out |-> sofar]
  ELSE LET r == isPrime(e, primes[i + 1])
       IN  IF r.out THEN primalityCheck(r.e, primes, i + 1, sofar)
           ELSE primalityCheck(r.e, primes, i + 1,
                               Append(sofar, Discrepancy(i, "sieve", <<"n","o","t","_","p","r","i","m","e">>,
                                                         "claimed", bigintToString(primes[i + 1]))))

enginesOf(mode) ==
  IF mode = "dual" THEN <<"sieve", "sieve-verify">>
  ELSE IF mode = "triple" THEN <<"sieve", "sieve-verify", "sieve-recompute">>
  ELSE <<"sieve">>

validationResult(e, mode, discrepancies) ==
  [status |-> "ok", e |-> e, mode |-> mode, engines |-> enginesOf(mode),
   agreement |-> Len(discrepancies) = 0,
   discrepancies |-> IF Len(discrepancies) > 0 THEN Some(discrepancies) ELSE None]

\* The three loops in their order; a throw of the first two leaves before
\* the engine is asked anything
validateChecks(e, mode, gapsCheck, d2Check, primes) ==
  IF gapsCheck.status # "ok" \/ d2Check.status # "ok" THEN [status |-> "throws", e |-> e]
  ELSE LET primesCheck == primalityCheck(e, primes, 0, <<>>)
       IN  validationResult(primesCheck.e, mode, gapsCheck.out \o d2Check.out \o primesCheck.out)

validateNeighborhood(e, data, mode) ==
  IF mode = "none"
    THEN [status |-> "ok", e |-> e, mode |-> mode, engines |-> <<"sieve">>,
          agreement |-> TRUE, discrepancies |-> None]
    ELSE validateChecks(e, mode, differenceCheck(data.primes, data.gaps),
                        differenceCheck(data.gaps, data.d2), data.primes)

(***************************************************************************)
(* The neighborhood service as a state machine over the engine's cache     *)
(***************************************************************************)
FieldNames == <<"d2", "gaps", "indices", "primes", "ratio">>

\* include arrays: none, each field alone, all of them as toCanonicalRequest
\* sorts them, and two that a direct caller left unsorted
Includes ==
  {<<>>, FieldNames, <<"primes", "gaps">>, <<"ratio", "d2", "ratio">>}
    \cup {<<FieldNames[i]>> : i \in DOMAIN FieldNames}

\* n as the query schema lets it through, any bigint string: indices up to
\* the last prime under the clamp, values up to the clamp
RequestNs(n_type) ==
  {Str(n) : n \in {-1, 0, 1, 3, 24, 100, 108} \cup (IF n_type = "value" THEN {598} ELSE {})}

\* The requests of the route: k with mode count, w with mode span
NeighborhoodRequests ==
  UNION {[n : RequestNs(n_type), n_type : {n_type}, mode : {"count"},
          k : {None, Some(1), Some(MaxK)}, w : {None}, include : Includes]
           \cup [n : RequestNs(n_type), n_type : {n_type}, mode : {"span"},
                 k : {None}, w : {None, Some(Str(MaxW)), Some(Str(-1))}, include : Includes] :
         n_type \in {"index", "value"}}

\* parseComputeOptions, computeNeighborhood and toNeighborhoodResult in a
\* row, as the route calls them
neighborhoodOfData(request, data) ==
  IF data.status # "ok" THEN [status |-> data.status, e |-> data.e, data |-> Outcome(data), result |-> None]
  ELSE [status |-> toNeighborhoodResult(request, data).status, e |-> data.e, data |-> Outcome(data),
        result |-> IF toNeighborhoodResult(request, data).status = "ok"
                     THEN Some(toNeighborhoodResult(request, data).out) ELSE None]

neighborhoodOf(e, request) ==
  IF parseComputeOptions(request).status # "ok"
    THEN [status |-> "throws", e |-> e, data |-> Outcome(NoData("throws", e)), result |-> None]
    ELSE neighborhoodOfData(request, computeNeighborhood(e, parseComputeOptions(request).out))

CallToNeighborhoodResult ==
  /\ Idle
  /\ \E request \in NeighborhoodRequests :
       Finish("toNeighborhoodResult", request, neighborhoodOf(Cur, request))

\* What may have happened to the data between computation and validation
Corruptions == {"none", "gap", "d2", "prime", "composite", "long gaps", "long d2", "no primes"}

Bump(xs, i) == IF i \in DOMAIN xs THEN [xs EXCEPT ![i] = @ + 2] ELSE xs

Corrupted(data, how) ==
  IF how = "gap" THEN [data EXCEPT !.gaps = Bump(@, 1)]
  ELSE IF how = "d2" THEN [data EXCEPT !.d2 = Bump(@, Len(@))]
  ELSE IF how = "prime" THEN [data EXCEPT !.primes = Bump(@, Len(@))]
  ELSE IF how = "composite" THEN [data EXCEPT !.primes = <<8, 9, 15>>, !.gaps = <<1, 6>>, !.d2 = <<5>>]
  ELSE IF how = "long gaps" THEN [data EXCEPT !.gaps = Append(@, 2)]
  ELSE IF how = "long d2" THEN [data EXCEPT !.d2 = Append(@, 0)]
  ELSE IF how = "no primes" THEN [data EXCEPT !.primes = <<>>]
  ELSE data

ValidationModes == {"none", "dual", "triple"}

\* The data that validateNeighborhood is handed: a computed neighborhood,
\* as it is or corrupted
ValidatedRequests ==
  {request \in NeighborhoodRequests :
     /\ request.include = FieldNames
     /\ request.n \in {Str(-1), Str(0), Str(3), Str(100), Str(598)}
     /\ request.k # Some(1)
     /\ request.w # Some(Str(-1))}

validateComputed(data, how, mode) ==
  IF data.status # "ok" THEN [status |-> data.status, e |-> data.e]
  ELSE validateNeighborhood(data.e, Corrupted(data, how), mode)

CallValidateNeighborhood ==
  /\ Idle
  /\ \E request \in ValidatedRequests, how \in Corruptions, mode \in ValidationModes :
       \E data \in {computeNeighborhood(Cur, parseComputeOptions(request).out)} :
         Finish("validateNeighborhood",
                [request |-> request, how |-> how, mode |-> mode,
                 data |-> Outcome(Corrupted(data, how))],
                validateComputed(data, how, mode))

NextNeighborhood ==
  \/ CallToNeighborhoodResult
  \/ CallValidateNeighborhood
  \/ Return

SpecNeighborhood == InitEngine /\ [][NextNeighborhood]_vars

(***************************************************************************)
(* Claims about the results and the validation                             *)
(***************************************************************************)

\* The call is the end-to-end scenario: n = 100, n_type = index, mode =
\* count, k = 3, every field included
ScenarioCall ==
  /\ call.op = "toNeighborhoodResult"
  /\ call.args.n = Str(100)
  /\ call.args.n_type = "index"
  /\ call.args.mode = "count"
  /\ call.args.k = Some(3)
  /\ call.args.include = FieldNames

\* The result carries these values
ScenarioResult(center, primes, gaps, d2, num, den) ==
  /\ ret.status = "ok"
  /\ ret.result # None
  /\ ret.result[1].center_prime = Some(Str(center))
  /\ ret.result[1].primes = Some(Strs(primes))
  /\ ret.result[1].gaps = Some(Strs(gaps))
  /\ ret.result[1].d2 = Some(Strs(d2))
  /\ ret.result[1].ratio # None
  /\ Len(ret.result[1].ratio[1]) = Len(d2)
  /\ ret.result[1].ratio[1][1] = [num |-> Str(num), den |-> Str(den)]

C15_ComputedNeighborhoodValidates ==
  (call.op = "validateNeighborhood" /\ call.args.how = "none" /\ call.args.data.status = "ok") =>
    /\ \A i \in 1..(Len(call.args.data.primes) - 1) :
         call.args.data.primes[i] < call.args.data.primes[i + 1]
    /\ \A i \in DOMAIN call.args.data.primes : isPrime(Cur, call.args.data.primes[i]).out
    /\ call.args.mode \in {"dual", "triple"} =>
         /\ ret.status = "ok"
         /\ ret.agreement
         /\ ret.discrepancies = None

\* C15 witness: the seven primes around index 100 were validated in mode
\* dual and found in agreement.
C15_Witness ==
  /\ call.op = "validateNeighborhood"
  /\ call.args.how = "none"
  /\ call.args.mode = "dual"
  /\ call.args.data.primes = <<521, 523, 541, 547, 557, 563, 569>>
  /\ ret.status = "ok"
  /\ ret.agreement
  /\ ret.engines = <<"sieve", "sieve-verify">>

\* The indices (0-based) at which a check of the data fails
GapFailures(data) ==
  {i \in 0..(Len(data.gaps) - 1) :
     ~(i + 1 < Len(data.primes) /\ data.gaps[i + 1] = data.primes[i + 2] - data.primes[i + 1])}

D2Failures(data) ==
  {i \in 0..(Len(data.d2) - 1) :
     ~(i + 1 < Len(data.gaps) /\ data.d2[i + 1] = data.gaps[i + 2] - data.gaps[i + 1])}

\* isPrime is the engine's own verdict, as the check names it
PrimeFailures(data) == {i \in 0..(Len(data.primes) - 1) : ~isPrime(Cur, data.primes[i + 1]).out}

\* The validation is the one the data deserves: agreement exactly when no
\* check fails anywhere, and otherwise one entry a failing index of a check
ValidationAsDeserved(data) ==
  /\ ret.status = "ok"
  /\ ret.agreement = (GapFailures(data) = {} /\ D2Failures(data) = {} /\ PrimeFailures(data) = {})
  /\ ret.agreement => ret.discrepancies = None
  /\ ~ret.agreement =>
       /\ ret.discrepancies # None
       /\ Len(ret.discrepancies[1])
            = Cardinality(GapFailures(data)) + Cardinality(D2Failures(data))
                + Cardinality(PrimeFailures(data))
       /\ \A j \in DOMAIN ret.discrepancies[1] :
            ret.discrepancies[1][j].index
              \in GapFailures(data) \cup D2Failures(data) \cup PrimeFailures(data)

\* C16 as stated: for ANY neighborhood data, consistent or corrupted:
\* validateNeighborhood in mode none returns agreement = true without
\* inspecting the data; in mode dual or triple it returns agreement = true
\* exactly when gaps[i] = primes[i+1] - primes[i] for every gap index, d2[i] =
\* gaps[i+1] - gaps[i] for every d2 index and isPrime(primes[i]) for every
\* prime index, and otherwise agreement = false with one discrepancy entry
\* for each failing index of each check.
C16_ValidationAnyData ==
  (call.op = "validateNeighborhood" /\ call.args.data.status = "ok") =>
    IF call.args.mode = "none"
      THEN ret.status = "ok" /\ ret.agreement /\ ret.discrepancies = None
      ELSE ValidationAsDeserved(call.args.data)

\* gaps has at most one entry less than primes and d2 at most one less than
\* gaps, or there are no primes (no gaps) to subtract at all
LengthsFit(data) ==
  /\ Len(data.gaps) = 0 \/ Len(data.primes) = 0 \/ Len(data.gaps) < Len(data.primes)
  /\ Len(data.d2) = 0 \/ Len(data.gaps) = 0 \/ Len(data.d2) < Len(data.gaps)

\* On data whose lengths fit, validateNeighborhood answers as C16 says.
C16_ValidationWhereLengthsFit ==
  (call.op = "validateNeighborhood" /\ call.args.data.status = "ok" /\ LengthsFit(call.args.data)) =>
    IF call.args.mode = "none"
      THEN ret.status = "ok" /\ ret.agreement /\ ret.discrepancies = None
      ELSE ValidationAsDeserved(call.args.data)

SectionOf(result, field) ==
  IF field = "primes" THEN result.primes
  ELSE IF field = "gaps" THEN result.gaps
  ELSE IF field = "d2" THEN result.d2
  ELSE IF field = "ratio" THEN result.ratio
  ELSE result.indices

AllDecimal(section) == section # None => \A i \in DOMAIN section[1] : IsDecimal(section[1][i])

\* C17: toNeighborhoodResult returns a result in which each of primes, gaps,
\* d2, ratio and indices is present exactly when request.include names it,
\* center_prime is present for every include set (also the empty one), n,
\* n_type and mode echo the request, and every prime, gap, d2, ratio
\* numerator and ratio denominator is a decimal-string integer.
C17_ResultFollowsInclude ==
  (call.op = "toNeighborhoodResult" /\ ret.data.status = "ok" /\ ret.data.centerPrime # None) =>
    /\ ret.status = "ok"
    /\ ret.result # None
    /\ \A i \in DOMAIN FieldNames :
         (SectionOf(ret.result[1], FieldNames[i]) # None) = Has(call.args.include, FieldNames[i])
    /\ ret.result[1].center_prime # None
    /\ IsDecimal(ret.result[1].center_prime[1])
    /\ ret.result[1].n = call.args.n
    /\ ret.result[1].n_type = call.args.n_type
    /\ ret.result[1].mode = call.args.mode
    /\ AllDecimal(ret.result[1].primes)
    /\ AllDecimal(ret.result[1].gaps)
    /\ AllDecimal(ret.result[1].d2)
    /\ ret.result[1].ratio # None =>
         \A i \in DOMAIN ret.result[1].ratio[1] :
           IsDecimal(ret.result[1].ratio[1][i].num) /\ IsDecimal(ret.result[1].ratio[1][i].den)

\* C17 witness: with an empty include the result of the window around
\* index 3 carries center_prime "7" and no section, though the data has seven
\* primes.
C17_Witness ==
  /\ call.op = "toNeighborhoodResult"
  /\ call.args.include = <<>>
  /\ call.args.n = Str(3)
  /\ call.args.n_type = "index"
  /\ Len(ret.data.primes) = 7
  /\ ret.result # None
  /\ ret.result[1].center_prime = Some(Str(7))
  /\ \A i \in DOMAIN FieldNames : SectionOf(ret.result[1], FieldNames[i]) = None

(***************************************************************************)
(* LEB128 varints and zigzag: src/api/src/encoding/varint.ts, zigzag.ts    *)
(*                                                                         *)
(* A bigint of any magnitude is a sign and a magnitude in base 128: the    *)
(* sequence of its 7-bit groups, least significant first, without a        *)
(* leading zero group (0n is the empty sequence).  On it, x & 0x7f is the  *)
(* first group, x >>= 7 drops it, and x >= 0x80 says two groups are left.  *)
(***************************************************************************)
Big(neg, mag) == [neg |-> neg, mag |-> mag]

RECURSIVE Normalize(_)
Normalize(mag) ==
  IF mag # <<>> /\ mag[Len(mag)] = 0 THEN Normalize(SubSeq(mag, 1, Len(mag) - 1)) ELSE mag

RECURSIVE natToGroups(_)
natToGroups(n) == IF n = 0 THEN <<>> ELSE <<n % 128>> \o natToGroups(n \div 128)

\* BigInt(n) of a small integer
ToBig(n) == Big(n < 0, natToGroups(Abs(n)))

RECURSIVE groupsToNat(_)
groupsToNat(mag) == IF mag = <<>> THEN 0 ELSE mag[1] + 128 * groupsToNat(Tail(mag))

\* The integer a bigint is, for one that fits the model's integers
FromBig(x) == IF x.neg THEN -groupsToNat(x.mag) ELSE groupsToNat(x.mag)

MaxShift == 70

RECURSIVE uvarintEncodeLoop(_)
uvarintEncodeLoop(x) ==
  IF Len(x) >= 2
    THEN <<x[1] + 128>> \o uvarintEncodeLoop(Tail(x))
    ELSE <<IF x = <<>> THEN 0 ELSE x[1]>>

uvarintEncode(x) ==
  IF x.neg THEN [status |-> "throws", out |-> <<>>]
  ELSE [status |-> "ok", out |-> uvarintEncodeLoop(x.mag)]

\* `result |= BigInt(byte & 0x7f) << shift` with shift = 7 * bytesRead puts
\* the byte's seven bits in as the next group.
RECURSIVE uvarintDecodeLoop(_, _, _, _, _)
uvarintDecodeLoop(buf, offset, result, shift, bytesRead) ==
  IF offset + bytesRead < Len(buf)
    THEN LET byte == buf[offset + bytesRead + 1]
             result1 == Append(result, byte % 128)
         IN  IF byte < 128
               THEN [status |-> "ok", value |-> Big(FALSE, Normalize(result1)), bytesRead |-> bytesRead + 1]
             ELSE IF shift + 7 > MaxShift
               THEN [status |-> "throws", error |-> "varint too long"]
             ELSE uvarintDecodeLoop(buf, offset, result1, shift + 7, bytesRead + 1)
    ELSE [status |-> "throws", error |-> "unexpected end of buffer"]

\* A decoder that counts the bytes after the first only
uvarintDecodeMiscount(buf, offset) ==
  LET r == uvarintDecodeLoop(buf, offset, <<>>, 0, 0)
  IN  IF r.status = "ok" THEN [r EXCEPT !.bytesRead = @ - 1] ELSE r

uvarintDecode(buf, offset) == uvarintDecodeLoop(buf, offset, <<>>, 0, 0)

RECURSIVE uvarintSizeLoop(_, _)
uvarintSizeLoop(x, size) == IF Len(x) >= 2 THEN uvarintSizeLoop(Tail(x), size + 1) ELSE size

uvarintSize(x) ==
  IF x.neg THEN [status |-> "throws", out |-> 0]
  ELSE [status |-> "ok", out |-> uvarintSizeLoop(x.mag, 1)]

zigzagEncode(s) == IF s >= 0 THEN 2 * s ELSE -2 * s - 1

\* A decoder that forgets the + 1 of the odd case
zigzagDecodeNoCarry(z) ==
  IF z < 0 THEN [status |-> "throws", out |-> 0]
  ELSE [status |-> "ok", out |-> IF z % 2 = 0 THEN jsDiv(z, 2) ELSE jsDiv(-z, 2)]

zigzagDecode(z) ==
  IF z < 0 THEN [status |-> "throws", out |-> 0]
  ELSE [status |-> "ok", out |-> IF z % 2 = 0 THEN jsDiv(z, 2) ELSE jsDiv(-(z + 1), 2)]

(***************************************************************************)
(* The varint codec as a state machine: one call at a time                 *)
(***************************************************************************)
MaxGroups == 12
MaxNat == 300

\* Non-negative bigints: the small ones and, for every length up to
\* MaxGroups groups, those with extreme and with mixed groups
BigNats ==
  {ToBig(n) : n \in 0..MaxNat}
    \cup {Big(FALSE, [i \in 1..len |-> IF i = len THEN top ELSE low]) :
            len \in 1..MaxGroups, top \in {1, 127}, low \in {0, 1, 127}}

Bigs == BigNats \cup {ToBig(-n) : n \in 1..3}

\* Buffers for the decoder: every short one over a few bytes, and runs of
\* continuation bytes with and without a final byte
Buffers ==
  UNION {[1..len -> {0, 1, 128, 255}] : len \in 0..3}
    \cup {[i \in 1..len |-> 128] : len \in 4..MaxGroups}
    \cup {[i \in 1..len |-> IF i = len THEN 1 ELSE 255] : len \in 4..MaxGroups}

InitVarint ==
  /\ cachedPrimes = <<>>
  /\ sieveLimit = 0
  /\ signingKeys = None
  /\ call = [op |-> "idle"]
  /\ ret = [status |-> "none"]
  /\ InitService

Pure(op, args, r) ==
  /\ Idle
  /\ call' = [op |-> op, args |-> args]
  /\ ret' = r
  /\ UNCHANGED <<cachedPrimes, sieveLimit, signingKeys, service>>

CallUvarintEncode == Idle /\ \E x \in Bigs : Pure("uvarintEncode", [x |-> x], uvarintEncode(x))

CallUvarintDecode ==
  /\ Idle
  /\ \E buf \in Buffers, offset \in 0..1 :
    Pure("uvarintDecode", [buf |-> buf, offset |-> offset], uvarintDecode(buf, offset))

CallUvarintSize == Idle /\ \E x \in Bigs : Pure("uvarintSize", [x |-> x], uvarintSize(x))

\* uvarintDecode(uvarintEncode(n)), as the round-trip test runs it
CallUvarintRoundTrip ==
  /\ Idle
  /\ \E n \in BigNats :
    LET encoded == uvarintEncode(n)
    IN  Pure("uvarintRoundTrip", [n |-> n],
             [status |-> "ok", encoded |-> encoded.out, decoded |-> uvarintDecode(encoded.out, 0)])

CallZigzagEncode == Idle /\ \E s \in -MaxNat..MaxNat : Pure("zigzagEncode", [s |-> s], [status |-> "ok", out |-> zigzagEncode(s)])

CallZigzagDecode == Idle /\ \E z \in -2..MaxNat : Pure("zigzagDecode", [z |-> z], zigzagDecode(z))

\* zigzagDecode(zigzagEncode(v)), as the round-trip test runs it
CallZigzagRoundTrip ==
  /\ Idle
  /\ \E s \in -MaxNat..MaxNat :
    Pure("zigzagRoundTrip", [s |-> s],
         [status |-> "ok", encoded |-> zigzagEncode(s), decoded |-> zigzagDecode(zigzagEncode(s))])

NextVarint ==
  \/ CallUvarintEncode
  \/ CallUvarintDecode
  \/ CallUvarintSize
  \/ CallUvarintRoundTrip
  \/ CallZigzagEncode
  \/ CallZigzagDecode
  \/ CallZigzagRoundTrip
  \/ Return

SpecVarint == InitVarint /\ [][NextVarint]_vars

\* The decoder's answer is the pair (n, number of bytes of the encoding)
RoundTripsTo(n, encoded, decoded) ==
  /\ decoded.status = "ok"
  /\ decoded.value = n
  /\ decoded.bytesRead = Len(encoded)

\* C4 as stated: for every non-negative integer n, of ANY magnitude,
\* uvarintDecode(uvarintEncode(n)) returns the pair (n, number of bytes that
\* uvarintEncode(n) produced).
C4_UvarintRoundTripAnyMagnitude ==
  call.op = "uvarintRoundTrip" => RoundTripsTo(call.args.n, ret.encoded, ret.decoded)

\* C4 amended: the same for every non-negative integer n < 2^77, which is
\* every n of at most 11 groups of 7 bits (an encoding of at most 11 bytes).
C4_UvarintRoundTripUpTo77Bits ==
  (call.op = "uvarintRoundTrip" /\ Len(call.args.n.mag) <= 11)
    => RoundTripsTo(call.args.n, ret.encoded, ret.decoded)

\* C4 witness: 2^77 - 1 came back from its 11-byte encoding.
C4_Witness ==
  /\ call.op = "uvarintRoundTrip"
  /\ call.args.n = Big(FALSE, [i \in 1..11 |-> 127])
  /\ Len(ret.encoded) = 11
  /\ ret.decoded.status = "ok"
  /\ ret.decoded.value = call.args.n
  /\ ret.decoded.bytesRead = 11

\* The five pairs the source's comment lists
ZigzagPairs == {<<0, 0>>, <<-1, 1>>, <<1, 2>>, <<-2, 3>>, <<2, 4>>}

\* C19: zigzag is a bijection between the signed integers and the integers
\* >= 0: zigzagDecode(zigzagEncode(s)) = s for every signed s,
\* zigzagEncode(zigzagDecode(z)) = z for every z >= 0, and zigzagEncode never
\* returns a negative number (0 -> 0, -1 -> 1, 1 -> 2, -2 -> 3, 2 -> 4).
C19_ZigzagBijection ==
  /\ call.op = "zigzagRoundTrip" =>
       /\ ret.encoded >= 0
       /\ ret.decoded = [status |-> "ok", out |-> call.args.s]
  /\ (call.op = "zigzagDecode" /\ call.args.z >= 0) =>
       /\ ret.status = "ok"
       /\ zigzagEncode(ret.out) = call.args.z
  /\ call.op = "zigzagEncode" =>
       /\ ret.out >= 0
       /\ \A pair \in ZigzagPairs : call.args.s = pair[1] => ret.out = pair[2]

\* C19 witness: -2 went to 3 and came back as -2.
C19_Witness ==
  /\ call.op = "zigzagRoundTrip"
  /\ call.args.s = -2
  /\ ret.encoded = 3
  /\ ret.decoded.out = -2

(***************************************************************************)
(* BIN v1: src/api/src/encoding/bin-format.ts                              *)
(*                                                                         *)
(* A NeighborhoodResult is a record whose optional fields are options; its *)
(* numbers are decimal strings, its indices JS numbers.  A buffer is a     *)
(* sequence of bytes; reading past its end yields undefined.               *)
(***************************************************************************)
MAGIC == <<70, 67, 80, 49>>
VERSION == 1
FLAG_PRIMES_IMPLICIT == 1
FLAG_GAPS == 2
FLAG_D2 == 4
FLAG_RATIO == 8
FLAG_INDICES == 16

\* flags & FLAG for one of the five flag bits, all of them in the low byte
HasFlag(flags, flag) == (flags \div flag) % 2 = 1

\* `xs ?? []`
OrEmpty(opt) == IF opt = None THEN <<>> ELSE opt[1]

\* `xs.length > 0 ? xs : undefined`
NonEmptyOrUndefined(xs) == IF Len(xs) > 0 THEN Some(xs) ELSE None

RECURSIVE Concat(_)
Concat(chunks) == IF chunks = <<>> THEN <<>> ELSE Head(chunks) \o Concat(Tail(chunks))

\* uvarintEncode(BigInt(string)): throws on a string that is no integer, and
\* on a negative one
encodeString(s) ==
  IF BigIntOfString(s) = None THEN [status |-> "throws", out |-> <<>>]
  ELSE uvarintEncode(ToBig(BigIntOfString(s)[1]))

\* uvarintEncode(zigzagEncode(BigInt(string)))
encodeSignedString(s) ==
  IF BigIntOfString(s) = None THEN [status |-> "throws", out |-> <<>>]
  ELSE uvarintEncode(ToBig(zigzagEncode(BigIntOfString(s)[1])))

\* uvarintEncode(BigInt(number)) of an integral JS number
encodeNumber(n) == uvarintEncode(ToBig(n))

binEncode(options) ==
  LET result == options.result
      flags == FLAG_PRIMES_IMPLICIT
                 + (IF result.gaps # None THEN FLAG_GAPS ELSE 0)
                 + (IF result.d2 # None THEN FLAG_D2 ELSE 0)
                 + (IF result.ratio # None THEN FLAG_RATIO ELSE 0)
                 + (IF result.indices # None THEN FLAG_INDICES ELSE 0)
      header == MAGIC \o <<VERSION % 256, (VERSION \div 256) % 256>>
                  \o <<flags % 256, 0, 0, 0>>
                  \o <<IF result.n_type = "index" THEN 0 ELSE 1>>
                  \o <<IF result.mode = "count" THEN 0 ELSE 1>>
      primes == OrEmpty(result.primes)
      gaps == OrEmpty(result.gaps)
      d2 == OrEmpty(result.d2)
      ratios == OrEmpty(result.ratio)
      indices == OrEmpty(result.indices)
      chunks ==
        <<[status |-> "ok", out |-> header], [status |-> "ok", out |-> <<0, 0>>],
          encodeNumber(Len(primes)), encodeNumber(Len(gaps)),
          encodeNumber(Len(d2)), encodeNumber(Len(ratios)),
          encodeNumber(options.centerIndex),
          IF Len(primes) > 0 THEN encodeString(primes[1]) ELSE encodeNumber(0)>>
          \o [i \in DOMAIN gaps |-> encodeString(gaps[i])]
          \o [i \in DOMAIN d2 |-> encodeSignedString(d2[i])]
          \o [i \in 1..(2 * Len(ratios)) |->
                IF i % 2 = 1 THEN encodeSignedString(ratios[(i + 1) \div 2].num)
                ELSE encodeString(ratios[i \div 2].den)]
          \o [i \in DOMAIN indices |-> encodeNumber(indices[i])]
  IN  IF \E i \in DOMAIN chunks : chunks[i].status # "ok"
        THEN [status |-> "throws", out |-> <<>>]
        ELSE [status |-> "ok", out |-> Concat([i \in DOMAIN chunks |-> chunks[i].out])]

\* data[i]: undefined past the end of the buffer
ByteAt(data, i) == IF i < Len(data) THEN Some(data[i + 1]) ELSE None

\* undefined counts as 0 in `|` and `<<`
ByteOrZero(data, i) == IF i < Len(data) THEN data[i + 1] ELSE 0

\* One section of the buffer: `count` varints read from `offset` on.  kind
\* "unsigned": as they are; "zigzag": each through zigzagDecode; "ratio":
\* zigzag(num) and den in turn.  The answer carries the offset reached.
RECURSIVE readSection(_, _, _, _, _)
readSection(data, offset, count, kind, sofar) ==
  IF count <= 0 THEN [status |-> "ok", offset |-> offset, out |-> sofar]
  ELSE LET r == uvarintDecode(data, offset)
           signed == kind = "zigzag" \/ (kind = "ratio" /\ Len(sofar) % 2 = 0)
       IN  IF r.status # "ok" THEN [status |-> "throws", offset |-> offset, out |-> sofar]
           ELSE readSection(data, offset + r.bytesRead, count - 1, kind,
                            Append(sofar, IF signed THEN zigzagDecode(FromBig(r.value)).out
                                                    ELSE FromBig(r.value)))

\* A section that is read only if its flag is set, after the one before it
sectionIf(present, data, before, count, kind) ==
  IF before.status = "ok" /\ present
    THEN readSection(data, before.offset, count, kind, <<>>)
    ELSE [before EXCEPT !.out = <<>>]

\* A reconstruction that adds each gap to p0 instead of to the prime before
OffsetsFromFirst(current, gaps) == <<current>> \o [i \in DOMAIN gaps |-> current + gaps[i]]

\* primes.push(current) ; for each gap: current += gap ; primes.push(current)
RECURSIVE RunningSums(_, _)
RunningSums(current, gaps) ==
  IF gaps = <<>> THEN <<current>>
  ELSE <<current>> \o RunningSums(current + gaps[1], Tail(gaps))

\* binDecode after the fixed header: the six leading varints at offset 14,
\* the sections, the reconstruction of the primes and the result
binDecodeBody(data, flags, nType, mode) ==
  LET head == readSection(data, 14, 6, "unsigned", <<>>)
      countPrimes == head.out[1]
      countGaps == head.out[2]
      countD2 == head.out[3]
      countRatio == head.out[4]
      centerIndex == head.out[5]
      p0 == head.out[6]
      gapsR == sectionIf(HasFlag(flags, FLAG_GAPS), data, head, countGaps, "unsigned")
      d2R == sectionIf(HasFlag(flags, FLAG_D2), data, gapsR, countD2, "zigzag")
      ratioR == sectionIf(HasFlag(flags, FLAG_RATIO), data, d2R, 2 * countRatio, "ratio")
      indicesR == sectionIf(HasFlag(flags, FLAG_INDICES), data, ratioR, countPrimes, "unsigned")
      gaps == [i \in DOMAIN gapsR.out |-> bigintToString(gapsR.out[i])]
      d2 == [i \in DOMAIN d2R.out |-> bigintToString(d2R.out[i])]
      ratios == [i \in 1..(Len(ratioR.out) \div 2) |->
                   [num |-> bigintToString(ratioR.out[2 * i - 1]),
                    den |-> bigintToString(ratioR.out[2 * i])]]
      primeValues == IF HasFlag(flags, FLAG_PRIMES_IMPLICIT)
                       THEN RunningSums(p0, [i \in DOMAIN gaps |-> BigIntOfString(gaps[i])[1]])
                       ELSE <<>>
      primes == [i \in DOMAIN primeValues |-> bigintToString(primeValues[i])]
  IN  IF indicesR.status # "ok" THEN [status |-> "throws"]
      ELSE [status |-> "ok",
            result |-> [n |-> <<"0">>, n_type |-> nType, mode |-> mode,
                        center_prime |-> None,
                        primes |-> NonEmptyOrUndefined(primes),
                        gaps |-> NonEmptyOrUndefined(gaps),
                        d2 |-> NonEmptyOrUndefined(d2),
                        ratio |-> NonEmptyOrUndefined(ratios),
                        indices |-> NonEmptyOrUndefined(indicesR.out)],
            centerIndex |-> centerIndex]

\* The five flag bits all lie in the low byte of the u32 flags field
binDecode(data) ==
  IF \E i \in 0..3 : ByteAt(data, i) # Some(MAGIC[i + 1])
    THEN [status |-> "throws"]
  ELSE IF ByteOrZero(data, 4) + 256 * ByteOrZero(data, 5) # VERSION
    THEN [status |-> "throws"]
  ELSE binDecodeBody(data,
                     ByteOrZero(data, 6),
                     IF ByteAt(data, 10) = Some(0) THEN "index" ELSE "value",
                     IF ByteAt(data, 11) = Some(0) THEN "count" ELSE "span")

(***************************************************************************)
(* The BIN v1 codec as a state machine: one call at a time                 *)
(***************************************************************************)
\* Well-typed results: unsigned decimal strings for primes and gaps, signed
\* ones for d2, reduced ratios, non-negative indices; every optional section
\* absent, present and empty, or present with entries
PrimesFields == {None, Some(<<>>), Some(<<Str(5), Str(7)>>),
                 Some(<<Str(5), Str(7), Str(11)>>), Some(<<Str(293), Str(307)>>)}
GapsFields == {None, Some(<<>>), Some(<<Str(2)>>), Some(<<Str(2), Str(4)>>), Some(<<Str(14)>>)}
D2Fields == {None, Some(<<>>), Some(<<Str(2)>>), Some(<<Str(-2)>>)}
RatioFields == {None, Some(<<[num |-> Str(-1), den |-> Str(3)]>>),
                Some(<<[num |-> Str(1), den |-> Str(3)]>>)}
IndicesFields == {None, Some(<<2>>), Some(<<2, 3>>), Some(<<2, 3, 4>>)}

Results ==
  UNION {[n : {Str(7)}, n_type : {kind[1]}, mode : {kind[2]},
          center_prime : {None, Some(Str(7))},
          primes : PrimesFields, gaps : GapsFields, d2 : D2Fields,
          ratio : RatioFields, indices : IndicesFields] :
           kind \in {<<"index", "count">>, <<"value", "span">>}}

MaxCenterIndex == 200

CenterIndices == {3, MaxCenterIndex}

\* Buffers that no encoder wrote: a wrong magic, a wrong version, too short
Malformed ==
  {<<70, 67, 80, 50, 1, 0, 1, 0, 0, 0, 0, 0, 0, 0, 0, 0, 0, 0, 0, 5>>,
   <<70, 67, 80, 49, 2, 0, 1, 0, 0, 0, 0, 0, 0, 0, 0, 0, 0, 0, 0, 5>>,
   <<70, 67, 80, 49, 1, 0, 1, 0, 0, 0, 0, 0, 0, 0, 0, 0, 0, 0, 0, 5>>,
   <<70, 67, 80>>, <<>>}

\* Buffers with a sound header and a varint of eleven continuation bytes:
\* as the first count, and as the one gap after sound counts
OverlongVarint == [i \in 1..12 |-> IF i = 12 THEN 1 ELSE 128]

Overlong ==
  {MAGIC \o <<1, 0, 3, 0, 0, 0, 0, 0, 0, 0>> \o OverlongVarint,
   MAGIC \o <<1, 0, 3, 0, 0, 0, 0, 0, 0, 0>> \o <<2, 1, 0, 0, 3, 5>> \o OverlongVarint}

\* Results as toNeighborhoodResult fills them in for the window 5, 7, 11:
\* each section there as a whole or not at all
WindowResults ==
  {r \in Results :
     /\ r.n_type = "index"
     /\ r.center_prime # None
     /\ r.primes \in {None, Some(<<Str(5), Str(7), Str(11)>>)}
     /\ r.gaps \in {None, Some(<<Str(2), Str(4)>>)}
     /\ r.d2 \in {None, Some(<<Str(2)>>)}
     /\ r.ratio \in {None, Some(<<[num |-> Str(1), den |-> Str(3)]>>)}
     /\ r.indices \in {None, Some(<<2, 3, 4>>)}}

InitBin ==
  /\ cachedPrimes = <<>>
  /\ sieveLimit = 0
  /\ signingKeys = None
  /\ call = [op |-> "idle"]
  /\ ret = [status |-> "none"]
  /\ InitService

CallBinEncode ==
  /\ Idle
  /\ \E result \in Results, centerIndex \in {0, 3} :
    /\ result.n_type = "index" /\ result.mode = "count" /\ result.d2 = None /\ result.ratio = None
    /\ Pure("binEncode", [result |-> result, centerIndex |-> centerIndex],
            binEncode([result |-> result, centerIndex |-> centerIndex]))

CallBinDecode == Idle /\ \E data \in Malformed \cup Overlong : Pure("binDecode", [data |-> data], binDecode(data))

\* binDecode(binEncode({result, centerIndex}))
CallBinRoundTrip ==
  /\ Idle
  /\ \E result \in Results, centerIndex \in CenterIndices :
    LET encoded == binEncode([result |-> result, centerIndex |-> centerIndex])
    IN  Pure("binRoundTrip", [result |-> result, centerIndex |-> centerIndex],
             [status |-> encoded.status, encoded |-> encoded.out,
              decoded |-> IF encoded.status = "ok" THEN binDecode(encoded.out) ELSE [status |-> "none"]])

\* binDecode of the first `length` bytes of binEncode({result, centerIndex})
CallBinDecodeTruncated ==
  /\ Idle
  /\ \E result \in WindowResults :
       \E encoded \in {binEncode([result |-> result, centerIndex |-> 3])} :
         \E length \in 0..(Len(encoded.out) - 1) :
           Pure("binDecodeTruncated", [result |-> result, encoded |-> encoded.out, length |-> length],
                binDecode(SubSeq(encoded.out, 1, length)))

NextBin ==
  \/ CallBinEncode
  \/ CallBinDecode
  \/ CallBinRoundTrip
  \/ CallBinDecodeTruncated
  \/ Return

SpecBin == InitBin /\ [][NextBin]_vars

\* The caller's reattachment of the n echo field
WithN(result, n) == [result EXCEPT !.n = n]

\* C3 as stated: for every NeighborhoodResult r, whatever combination of the
\* optional sections is present or absent, and every centerIndex c >= 0,
\* binDecode(binEncode({result: r, centerIndex: c})) returns centerIndex c and
\* a result which, once its n field is set back to r.n, equals r.
C3_BinRoundTrip ==
  call.op = "binRoundTrip" =>
    /\ ret.status = "ok"
    /\ ret.decoded.status = "ok"
    /\ ret.decoded.centerIndex = call.args.centerIndex
    /\ WithN(ret.decoded.result, call.args.result.n) = call.args.result

\* Results that do round-trip exist: one with every section, gaps that match
\* the primes and no center_prime came back as it went in.
C3_SomeRoundTrip ==
  /\ call.op = "binRoundTrip"
  /\ call.args.result.primes = Some(<<Str(5), Str(7)>>)
  /\ call.args.result.gaps = Some(<<Str(2)>>)
  /\ call.args.result.ratio # None
  /\ call.args.result.indices = Some(<<2, 3>>)
  /\ ret.decoded.status = "ok"
  /\ WithN(ret.decoded.result, call.args.result.n) = call.args.result

\* The buffer does not start with the four bytes of "FCP1"
BadMagic(data) == Len(data) < 4 \/ SubSeq(data, 1, 4) # MAGIC

\* The u16 after the magic is not 1
BadVersion(data) == Len(data) < 6 \/ data[5] # 1 \/ data[6] # 0

\* C20 as stated: binDecode throws, and returns no partial result, for every
\* malformed input: a buffer whose first four bytes are not "FCP1", one
\* whose version is not 1, one with a varint of more than 10 continuation
\* bytes, and every proper prefix of a buffer that binEncode produced.
C20_MalformedThrows ==
  /\ (call.op = "binDecode" /\ (BadMagic(call.args.data) \/ BadVersion(call.args.data)
                                 \/ call.args.data \in Overlong))
       => ret = [status |-> "throws"]
  /\ call.op = "binDecodeTruncated" => ret = [status |-> "throws"]

\* Truncations that are detected exist: cut anywhere, the encoding of a
\* result with its primes and its indices makes binDecode throw.
C20_TruncationDetectedWithPrimes ==
  (call.op = "binDecodeTruncated" /\ call.args.result.primes # None /\ call.args.result.gaps # None)
    => ret = [status |-> "throws"]

\* The first prime as binEncode takes it: primes[0], or 0n without primes
FirstPrime(result) == IF OrEmpty(result.primes) = <<>> THEN Str(0) ELSE result.primes[1][1]

\* The result with every prime after the first replaced by the first
OnlyFirstPrime(result) ==
  [result EXCEPT !.primes = IF @ = None THEN None ELSE Some([i \in DOMAIN @[1] |-> FirstPrime(result)])]

ValueOf(s) == BigIntOfString(s)[1]

\* The result carries primes and, for every pair of neighbours, their gap
GapsOfPrimes(result) ==
  /\ result.primes # None
  /\ result.gaps # None
  /\ Len(result.primes[1]) > 0
  /\ Len(result.gaps[1]) = Len(result.primes[1]) - 1
  /\ \A i \in DOMAIN result.gaps[1] :
       ValueOf(result.gaps[1][i]) = ValueOf(result.primes[1][i + 1]) - ValueOf(result.primes[1][i])

\* The decoded primes are p0, p0 + gaps[0], p0 + gaps[0] + gaps[1], ...
RebuiltFromGaps(decoded, p0) ==
  /\ decoded.primes # None
  /\ Len(decoded.primes[1]) = Len(OrEmpty(decoded.gaps)) + 1
  /\ decoded.primes[1][1] = p0
  /\ \A i \in DOMAIN OrEmpty(decoded.gaps) :
       ValueOf(decoded.primes[1][i + 1]) = ValueOf(decoded.primes[1][i]) + ValueOf(decoded.gaps[1][i])

\* What C25 says of the encoder and of the decoder's reconstruction: the
\* bytes do not change when every prime after the first is replaced, and a
\* decoded result has the primes p0, p0+gaps[0], p0+gaps[0]+gaps[1], ...,
\* which is [p0] alone when the gaps flag is absent
OnlyFirstPrimeAndGaps ==
  /\ ret.status = "ok"
  /\ ret.encoded = binEncode([result |-> OnlyFirstPrime(call.args.result),
                              centerIndex |-> call.args.centerIndex]).out
  /\ ret.decoded.status = "ok" =>
       /\ RebuiltFromGaps(ret.decoded.result, FirstPrime(call.args.result))
       /\ call.args.result.gaps = None =>
            ret.decoded.result.primes = Some(<<FirstPrime(call.args.result)>>)

PrimesComeBack ==
  /\ ret.decoded.status = "ok"
  /\ ret.decoded.result.primes = call.args.result.primes

IndicesForEveryPrime(result) ==
  result.indices = None \/ Len(result.indices[1]) >= Len(OrEmpty(result.primes))

JNull == [t |-> "null"]
JUndefined == [t |-> "undefined"]
JBool(b) == [t |-> "boolean", b |-> b]
JNumber(n) == [t |-> "number", kind |-> "finite", n |-> n]
JNegZero == [t |-> "number", kind |-> "negzero", n |-> 0]
JNonFinite == [t |-> "number", kind |-> "nonfinite", n |-> 0]
JBigInt(i) == [t |-> "bigint", i |-> i]
JString(s) == [t |-> "string", s |-> s]
JArray(a) == [t |-> "array", a |-> a]
JObject(o) == [t |-> "object", o |-> o]
JFunction == [t |-> "function"]
Prop(k, v) == [k |-> k, v |-> v]

\* The characters 0x20..0x5f and 0x61..0x7e in code order
AsciiUpper ==
  <<" ", "!", "\"", "#", "$", "%", "&", "'", "(", ")", "*", "+", ",", "-", ".", "/",
    "0", "1", "2", "3", "4", "5", "6", "7", "8", "9", ":", ";", "<", "=", ">", "?",
    "@", "A", "B", "C", "D", "E", "F", "G", "H", "I", "J", "K", "L", "M", "N", "O",
    "P", "Q", "R", "S", "T", "U", "V", "W", "X", "Y", "Z", "[", "\\", "]", "^", "_">>

AsciiLower ==
  <<"a", "b", "c", "d", "e", "f", "g", "h", "i", "j", "k", "l", "m", "n", "o", "p",
    "q", "r", "s", "t", "u", "v", "w", "x", "y", "z", "{", "|", "}", "~">>

\* The UTF-16 code unit of a character, which for these is also its one
\* UTF-8 byte
CharCode ==
  [c \in {AsciiUpper[i] : i \in DOMAIN AsciiUpper} |->
     31 + (CHOOSE i \in DOMAIN AsciiUpper : AsciiUpper[i] = c)]
    @@ [c \in {AsciiLower[i] : i \in DOMAIN AsciiLower} |->
          96 + (CHOOSE i \in DOMAIN AsciiLower : AsciiLower[i] = c)]
    @@ ("\n" :> 10)

\* a < b as the default comparator of Array.prototype.sort orders strings:
\* by code units, a proper prefix first
RECURSIVE StrLess(_, _)
StrLess(a, b) ==
  IF b = <<>> THEN FALSE
  ELSE IF a = <<>> THEN TRUE
  ELSE IF a[1] = b[1] THEN StrLess(Tail(a), Tail(b))
  ELSE CharCode[a[1]] < CharCode[b[1]]

RECURSIVE sortInsert(_, _)
sortInsert(k, sorted) ==
  IF sorted = <<>> THEN <<k>>
  ELSE IF StrLess(sorted[1], k) THEN <<sorted[1]>> \o sortInsert(k, Tail(sorted))
  ELSE <<k>> \o sorted

RECURSIVE insertionSort(_)
insertionSort(keys) ==
  IF keys = <<>> THEN <<>> ELSE sortInsert(Head(keys), insertionSort(Tail(keys)))

\* A sort that leaves the keys in the order Object.keys gave them
sortKeepOrder(keys) == keys

\* Array.prototype.sort() on strings, with the default comparator
sort(keys) == insertionSort(keys)

\* An array index as a property key: "0", or digits without a leading zero
IsArrayIndex(k) == AllDigits(k) /\ (Len(k) = 1 \/ k[1] # "0")

RECURSIVE numericInsert(_, _)
numericInsert(k, sorted) ==
  IF sorted = <<>> THEN <<k>>
  ELSE IF digitsToNat(sorted[1], 0) < digitsToNat(k, 0)
    THEN <<sorted[1]>> \o numericInsert(k, Tail(sorted))
  ELSE <<k>> \o sorted

RECURSIVE numericSort(_)
numericSort(keys) ==
  IF keys = <<>> THEN <<>> ELSE numericInsert(Head(keys), numericSort(Tail(keys)))

\* Object.keys(obj): the array-index keys in numeric order, then the other
\* keys in insertion order
ObjectKeys(o) ==
  LET keys == [i \in DOMAIN o |-> o[i].k]
  IN  numericSort(SelectSeq(keys, IsArrayIndex))
        \o SelectSeq(keys, LAMBDA k : ~IsArrayIndex(k))

\* obj[k], undefined for a key the object does not have
GetProp(o, k) ==
  IF \E i \in DOMAIN o : o[i].k = k
    THEN o[CHOOSE i \in DOMAIN o : o[i].k = k].v
    ELSE JUndefined

\* The concatenation of parts[lo..hi], by halves
RECURSIVE Flatten(_, _, _)
Flatten(parts, lo, hi) ==
  IF lo > hi THEN <<>>
  ELSE IF lo = hi THEN parts[lo]
  ELSE Flatten(parts, lo, (lo + hi) \div 2) \o Flatten(parts, ((lo + hi) \div 2) + 1, hi)

\* parts.join(sep)
Join(parts, sep) ==
  Flatten([i \in 1..(2 * Len(parts) - 1) |-> IF i % 2 = 1 THEN parts[(i + 1) \div 2] ELSE sep],
          1, 2 * Len(parts) - 1)

\* JSON.stringify(string): quoted, with the quote, the backslash and the
\* newline escaped
escapeChars(s) ==
  IF \A i \in DOMAIN s : s[i] \notin {"\"", "\\", "\n"} THEN s
  ELSE Flatten([i \in DOMAIN s |->
                  IF s[i] = "\"" THEN <<"\\", "\"">>
                  ELSE IF s[i] = "\\" THEN <<"\\", "\\">>
                  ELSE IF s[i] = "\n" THEN <<"\\", "n">>
                  ELSE <<s[i]>>], 1, Len(s))

\* The string between quotes as it is
jsonStringifyStringRaw(s) == <<"\"">> \o s \o <<"\"">>

jsonStringifyString(s) == <<"\"">> \o escapeChars(s) \o <<"\"">>

\* A number written like an arbitrary-precision integer, between quotes
jsonStringifyNumberQuoted(v) == <<"\"">> \o bigintToString(v.n) \o <<"\"">>

\* JSON.stringify(number) of a finite number: negative zero is written 0
jsonStringifyNumber(v) == IF v.kind = "negzero" THEN <<"0">> ELSE bigintToString(v.n)

Returned(out) == [status |-> "ok", out |-> out]
Thrown == [status |-> "throws", out |-> <<>>]

\* An outcome's value handed on, a throw passed through
Then(outcome, F(_)) == IF outcome.status # "ok" THEN Thrown ELSE Returned(F(outcome.out))

\* '[' + parts.join(',') + ']' of the elements' texts
arrayText(parts) ==
  IF \E i \in DOMAIN parts : parts[i].status # "ok" THEN Thrown
  ELSE Returned(<<"[">> \o Join([i \in DOMAIN parts |-> parts[i].out], <<",">>) \o <<"]">>)

\* '{' + pairs.join(',') + '}' of the kept keys and their values' texts
objectText(kept, values) ==
  IF \E i \in DOMAIN values : values[i].status # "ok" THEN Thrown
  ELSE Returned(<<"{">>
                  \o Join([i \in DOMAIN kept |->
                             jsonStringifyString(kept[i]) \o <<":">> \o values[i].out],
                          <<",">>)
                  \o <<"}">>)

\* Object.keys(obj).sort() without the keys whose value is undefined
keptKeys(o) == SelectSeq(sort(ObjectKeys(o)), LAMBDA k : GetProp(o, k) # JUndefined)

RECURSIVE canonicalStringify(_)
objectPairs(o, kept) ==
  objectText(kept, <<>> \o [i \in DOMAIN kept |-> canonicalStringify(GetProp(o, kept[i]))])

canonicalStringify(obj) ==
  IF obj.t = "null" THEN Returned(<<"n", "u", "l", "l">>)
  ELSE IF obj.t = "undefined" THEN Returned(<<"n", "u", "l", "l">>)
  ELSE IF obj.t = "boolean"
    THEN Returned(IF obj.b THEN <<"t", "r", "u", "e">> ELSE <<"f", "a", "l", "s", "e">>)
  ELSE IF obj.t = "number"
    THEN IF obj.kind = "nonfinite" THEN Thrown ELSE Returned(jsonStringifyNumber(obj))
  ELSE IF obj.t = "bigint" THEN Returned(jsonStringifyString(bigintToString(obj.i)))
  ELSE IF obj.t = "string" THEN Returned(jsonStringifyString(obj.s))
  ELSE IF obj.t = "array"
    THEN arrayText(<<>> \o [i \in DOMAIN obj.a |-> canonicalStringify(obj.a[i])])
  ELSE IF obj.t = "object" THEN objectPairs(obj.o, keptKeys(obj.o))
  ELSE Thrown

\* new TextEncoder().encode(text) of a text within ASCII
TextEncoderEncode(text) == [i \in DOMAIN text |-> CharCode[text[i]]]

\* new TextEncoder().encode(canonicalStringify(obj))
canonicalBytes(obj) == Then(canonicalStringify(obj), TextEncoderEncode)

(***************************************************************************)
(* JSON.parse, as canonicalParse uses it: a recursive-descent reading of   *)
(* the text from a position on.  A reading answers ok, the value and the   *)
(* position after it.  The object of a reading keeps its members in the    *)
(* order of the text.                                                      *)
(***************************************************************************)
ParseFail(i) == [ok |-> FALSE, v |-> JNull, next |-> i]
ParseOk(v, i) == [ok |-> TRUE, v |-> v, next |-> i]

\* The character at position i, "" past the end of the text
CharAt(s, i) == IF i <= Len(s) THEN s[i] ELSE ""

Matches(s, i, lit) == i + Len(lit) - 1 <= Len(s) /\ SubSeq(s, i, i + Len(lit) - 1) = lit

RECURSIVE skipWs(_, _)
skipWs(s, i) == IF CharAt(s, i) \in {" ", "\n"} THEN skipWs(s, i + 1) ELSE i

\* The characters of a string after its opening quote, up to the closing one
RECURSIVE parseStringChars(_, _, _)
parseStringChars(s, i, acc) ==
  LET c == CharAt(s, i)
      e == CharAt(s, i + 1)
  IN  IF c = "" \/ c = "\n" THEN ParseFail(i)
      ELSE IF c = "\"" THEN ParseOk(JString(acc), i + 1)
      ELSE IF c = "\\"
        THEN IF e \in {"\"", "\\", "/"} THEN parseStringChars(s, i + 2, Append(acc, e))
             ELSE IF e = "n" THEN parseStringChars(s, i + 2, Append(acc, "\n"))
             ELSE ParseFail(i)
      ELSE parseStringChars(s, i + 1, Append(acc, c))

RECURSIVE digitsEnd(_, _)
digitsEnd(s, i) == IF IsDigit(CharAt(s, i)) THEN digitsEnd(s, i + 1) ELSE i

\* An integer: an optional minus, then 0 or digits without a leading zero
parseNumber(s, i) ==
  LET neg == CharAt(s, i) = "-"
      start == IF neg THEN i + 1 ELSE i
      stop == digitsEnd(s, start)
      digits == SubSeq(s, start, stop - 1)
      n == digitsToNat(digits, 0)
  IN  IF digits = <<>> THEN ParseFail(i)
      ELSE IF Len(digits) > 1 /\ digits[1] = "0" THEN ParseFail(i)
      ELSE IF neg /\ n = 0 THEN ParseOk(JNegZero, stop)
      ELSE ParseOk(JNumber(IF neg THEN -n ELSE n), stop)

\* obj[k] = v while reading: a repeated key keeps its place and takes the
\* later value
DefineProp(o, k, v) ==
  IF \E i \in DOMAIN o : o[i].k = k
    THEN [i \in DOMAIN o |-> IF o[i].k = k THEN Prop(k, v) ELSE o[i]]
    ELSE Append(o, Prop(k, v))

RECURSIVE parseValue(_, _)
RECURSIVE parseElements(_, _, _)
RECURSIVE parseMembers(_, _, _)

parseValue(s, from) ==
  LET i == skipWs(s, from)
      c == CharAt(s, i)
      inner == skipWs(s, i + 1)
  IN  IF Matches(s, i, <<"n", "u", "l", "l">>) THEN ParseOk(JNull, i + 4)
      ELSE IF Matches(s, i, <<"t", "r", "u", "e">>) THEN ParseOk(JBool(TRUE), i + 4)
      ELSE IF Matches(s, i, <<"f", "a", "l", "s", "e">>) THEN ParseOk(JBool(FALSE), i + 5)
      ELSE IF c = "\"" THEN parseStringChars(s, i + 1, <<>>)
      ELSE IF c = "["
        THEN IF CharAt(s, inner) = "]" THEN ParseOk(JArray(<<>>), inner + 1)
             ELSE parseElements(s, i + 1, <<>>)
      ELSE IF c = "{"
        THEN IF CharAt(s, inner) = "}" THEN ParseOk(JObject(<<>>), inner + 1)
             ELSE parseMembers(s, i + 1, <<>>)
      ELSE IF c = "-" \/ IsDigit(c) THEN parseNumber(s, i)
      ELSE ParseFail(i)

\* The elements of an array from the start of one of them on
parseElements(s, from, acc) ==
  LET r == parseValue(s, from)
      j == skipWs(s, r.next)
  IN  IF ~r.ok THEN ParseFail(from)
      ELSE IF CharAt(s, j) = "," THEN parseElements(s, j + 1, Append(acc, r.v))
      ELSE IF CharAt(s, j) = "]" THEN ParseOk(JArray(Append(acc, r.v)), j + 1)
      ELSE ParseFail(j)

\* The members of an object from the start of one of them on
parseMembers(s, from, acc) ==
  LET i == skipWs(s, from)
      k == IF CharAt(s, i) = "\"" THEN parseStringChars(s, i + 1, <<>>) ELSE ParseFail(i)
      colon == skipWs(s, k.next)
      r == parseValue(s, colon + 1)
      j == skipWs(s, r.next)
  IN  IF ~k.ok THEN ParseFail(i)
      ELSE IF CharAt(s, colon) # ":" THEN ParseFail(colon)
      ELSE IF ~r.ok THEN ParseFail(colon)
      ELSE IF CharAt(s, j) = ","
        THEN parseMembers(s, j + 1, DefineProp(acc, k.v.s, r.v))
      ELSE IF CharAt(s, j) = "}"
        THEN ParseOk(JObject(DefineProp(acc, k.v.s, r.v)), j + 1)
      ELSE ParseFail(j)

JSONparse(json) ==
  LET r == parseValue(json, 1)
  IN  IF r.ok /\ skipWs(json, r.next) = Len(json) + 1
        THEN [status |-> "ok", out |-> r.v]
        ELSE [status |-> "throws", out |-> JNull]

\* JSON.parse(json) as T: a SyntaxError unless the whole text is one value
canonicalParse(json) == JSONparse(json)

(***************************************************************************)
(* The canonical codec as a state machine: one call at a time              *)
(***************************************************************************)
MaxArrayLen == 2

SeqsUpTo(S, n) == UNION {[1..m -> S] : m \in 0..n}

Reverse(s) == [i \in DOMAIN s |-> s[Len(s) + 1 - i]]

\* Keys whose code-unit order differs from their numeric order ("10" < "9")
\* and from their alphabetic order ("B" < "a")
Keys == {<<"a">>, <<"b">>, <<"B">>, <<"1", "0">>, <<"9">>}

Atoms ==
  {JNull, JBool(TRUE), JBool(FALSE), JNumber(0), JNegZero, JNumber(7), JNumber(-12),
   JBigInt(5), JBigInt(-45), JString(<<>>), JString(<<"a">>), JString(<<"5">>),
   JString(<<"a", "\"", "b">>), JString(<<"\\", "\n", " ">>)}

ArrayAtoms ==
  {JNull, JNumber(7), JNegZero, JBigInt(5), JString(<<"5">>), JString(<<"a", "\"", "b">>)}

PropValues == {JUndefined, JNull, JNumber(1), JBigInt(5), JString(<<"a">>)}

FlatArrays == {JArray(a) : a \in SeqsUpTo(ArrayAtoms, MaxArrayLen)}

FlatObjects ==
  {JObject(<<>>)}
    \cup {JObject(<<Prop(k, v)>>) : k \in Keys, v \in PropValues}
    \cup {JObject(<<Prop(k[1], v[1]), Prop(k[2], v[2])>>) :
            k \in {kk \in Keys \X Keys : kk[1] # kk[2]}, v \in PropValues \X PropValues}
    \cup {JObject([i \in 1..3 |-> Prop(k[i], v[i])]) :
            k \in {kk \in [1..3 -> {<<"a">>, <<"b">>, <<"B">>}] :
                     \A i, j \in 1..3 : i # j => kk[i] # kk[j]},
            v \in [1..3 -> {JNumber(1), JUndefined}]}

Inner ==
  {JNumber(1), JArray(<<>>), JArray(<<JNumber(1), JNull>>), JObject(<<>>),
   JObject(<<Prop(<<"a">>, JNumber(1)), Prop(<<"b">>, JString(<<"a">>))>>),
   JObject(<<Prop(<<"b">>, JString(<<"a">>)), Prop(<<"a">>, JNumber(1))>>),
   JObject(<<Prop(<<"b">>, JUndefined), Prop(<<"a">>, JNumber(1))>>),
   JObject(<<Prop(<<"a">>, JBigInt(5))>>)}

NestedArrays == {JArray(a) : a \in SeqsUpTo(Inner, MaxArrayLen)}

NestedObjects ==
  {JObject(<<Prop(k, v)>>) : k \in {<<"a">>, <<"b">>}, v \in Inner}
    \cup {JObject(<<Prop(k[1], v[1]), Prop(k[2], v[2])>>) :
            k \in {<<<<"a">>, <<"b">>>>, <<<<"b">>, <<"a">>>>}, v \in Inner \X Inner}

Deep ==
  {JObject(<<Prop(<<"a">>, v)>>) : v \in NestedObjects}
    \cup {JArray(<<v>>) : v \in NestedObjects}

JsValues ==
  Atoms \cup FlatArrays \cup FlatObjects \cup NestedArrays \cup NestedObjects \cup Deep

\* Values the serializer refuses, alone and inside a container, and the
\* absent marker on its own and as an array element
OddValues ==
  {JUndefined, JNonFinite, JFunction, JArray(<<JNumber(1), JNonFinite>>),
   JArray(<<JUndefined, JNumber(1)>>), JObject(<<Prop(<<"a">>, JFunction)>>)}

JsonTexts ==
  {<<"{", "\"", "a", "\"", " ", ":", " ", "1", "}", "\n">>,
   <<"{", "\"", "a", "\"", ":", "1", ",", "\"", "a", "\"", ":", "2", "}">>,
   <<"[", "1", ",", "]">>, <<"[", "1", " ", "2", "]">>, <<"{", "\"", "a", "\"", "}">>,
   <<"0", "1">>, <<"-", "0">>, <<"-">>, <<"1", " ", "1">>, <<>>,
   <<"\"", "a">>, <<"\"", "\\", "x", "\"">>, <<"\"", "\\", "/", "\"">>,
   <<"n", "u", "l">>, <<"t", "r", "u", "e">>, <<"[", " ", "]">>, <<"{", "}">>}

Hows == {"reversed", "rotated", "padded", "stripped", "arraysReversed"}

\* v with the properties of every object, at every depth, put in another
\* insertion order ("reversed", "rotated"), with an undefined-valued
\* property added ("padded") or with the undefined-valued ones removed
\* ("stripped"); or with the elements of every array in reverse order
RECURSIVE Rearranged(_, _)
Rearranged(v, how) ==
  IF v.t = "array"
    THEN LET a == [i \in DOMAIN v.a |-> Rearranged(v.a[i], how)]
         IN  JArray(IF how = "arraysReversed" THEN Reverse(a) ELSE a)
  ELSE IF v.t = "object"
    THEN LET o == [i \in DOMAIN v.o |-> Prop(v.o[i].k, Rearranged(v.o[i].v, how))]
         IN  JObject(IF how = "reversed" THEN Reverse(o)
                     ELSE IF how = "rotated" /\ o # <<>> THEN Tail(o) \o <<Head(o)>>
                     ELSE IF how = "padded" THEN <<Prop(<<"z">>, JUndefined)>> \o o
                     ELSE IF how = "stripped" THEN SelectSeq(o, LAMBDA p : p.v # JUndefined)
                     ELSE o)
  ELSE v

InitCanon ==
  /\ cachedPrimes = <<>>
  /\ sieveLimit = 0
  /\ signingKeys = None
  /\ call = [op |-> "idle"]
  /\ ret = [status |-> "none"]
  /\ InitService

CallCanonicalStringify ==
  /\ Idle
  /\ \E v \in JsValues \cup OddValues :
    Pure("canonicalStringify", [v |-> v], canonicalStringify(v))

CallCanonicalBytes ==
  /\ Idle
  /\ \E v \in Atoms \cup OddValues : Pure("canonicalBytes", [v |-> v], canonicalBytes(v))

CallCanonicalParse ==
  /\ Idle
  /\ \E json \in JsonTexts : Pure("canonicalParse", [json |-> json], canonicalParse(json))

\* canonicalParse(canonicalStringify(v))
CallCanonicalRoundTrip ==
  /\ Idle
  /\ \E v \in JsValues :
    LET json == canonicalStringify(v)
        parsed == canonicalParse(json.out)
    IN  Pure("canonicalRoundTrip", [v |-> v],
             [status |-> IF json.status = "ok" THEN parsed.status ELSE json.status,
              json |-> json.out, parsed |-> parsed.out])

\* canonicalStringify of a value and of a rearrangement of it
CallCanonicalStringifyBoth ==
  /\ Idle
  /\ \E v \in JsValues, how \in Hows :
    LET w == Rearranged(v, how)
        left == canonicalStringify(v)
        right == canonicalStringify(w)
    IN  Pure("canonicalStringifyBoth", [v |-> v, w |-> w, how |-> how],
             [status |-> IF left.status = "ok" THEN right.status ELSE left.status,
              left |-> left.out, right |-> right.out])

\* Values without the absent marker to serialise two by two: the atoms,
\* strings that read like another value's text, short arrays and objects
PairAtoms == {JNumber(7), JBigInt(5), JString(<<"5">>), JNull}

PairValues ==
  Atoms
    \cup {JString(<<"7">>), JString(<<"n", "u", "l", "l">>), JString(<<"[", "7", "]">>),
          JString(<<"7", ",", "7">>)}
    \cup {JArray(a) : a \in SeqsUpTo(PairAtoms, MaxArrayLen)}
    \cup {JObject(<<>>)}
    \cup {JObject(<<Prop(k, v)>>) : k \in {<<"a">>, <<"b">>}, v \in PairAtoms}
    \cup {JObject(<<Prop(k[1], v[1]), Prop(k[2], v[2])>>) :
            k \in {<<<<"a">>, <<"b">>>>, <<<<"b">>, <<"a">>>>}, v \in PairAtoms \X PairAtoms}

\* canonicalStringify of two values
CallCanonicalStringifyPair ==
  /\ Idle
  /\ \E v \in PairValues, w \in PairValues :
    LET left == canonicalStringify(v)
        right == canonicalStringify(w)
    IN  Pure("canonicalStringifyPair", [v |-> v, w |-> w],
             [status |-> IF left.status = "ok" THEN right.status ELSE left.status,
              left |-> left.out, right |-> right.out])

NextCanon ==
  \/ CallCanonicalStringify
  \/ CallCanonicalStringifyPair
  \/ CallCanonicalBytes
  \/ CallCanonicalParse
  \/ CallCanonicalRoundTrip
  \/ CallCanonicalStringifyBoth
  \/ Return

SpecCanon == InitCanon /\ [][NextCanon]_vars

(***************************************************************************)
(* Structural equality and the claims on the canonical codec               *)
(***************************************************************************)
DefinedKeys(o) == {o[i].k : i \in {j \in DOMAIN o : o[j].v # JUndefined}}

\* Structural equality as the tests' toEqual takes it: the same type, the
\* same primitive (Object.is), arrays element by element, objects by their
\* defined properties whatever the insertion order
RECURSIVE StructEq(_, _)
StructEq(a, b) ==
  IF a.t # b.t THEN FALSE
  ELSE IF a.t = "array"
    THEN Len(a.a) = Len(b.a) /\ \A i \in DOMAIN a.a : StructEq(a.a[i], b.a[i])
  ELSE IF a.t = "object"
    THEN /\ DefinedKeys(a.o) = DefinedKeys(b.o)
         /\ \A k \in DefinedKeys(a.o) : StructEq(GetProp(a.o, k), GetProp(b.o, k))
  ELSE a = b

\* v with every arbitrary-precision integer replaced by its decimal string
\* and negative zero by zero
RECURSIVE JsonImage(_)
JsonImage(v) ==
  IF v.t = "bigint" THEN JString(bigintToString(v.i))
  ELSE IF v = JNegZero THEN JNumber(0)
  ELSE IF v.t = "array" THEN JArray([i \in DOMAIN v.a |-> JsonImage(v.a[i])])
  ELSE IF v.t = "object"
    THEN JObject([i \in DOMAIN v.o |-> Prop(v.o[i].k, JsonImage(v.o[i].v))])
  ELSE v

\* The values inside v, v included
RECURSIVE Parts(_)
Parts(v) ==
  {v} \cup (IF v.t = "array" THEN UNION {Parts(v.a[i]) : i \in DOMAIN v.a}
            ELSE IF v.t = "object" THEN UNION {Parts(v.o[i].v) : i \in DOMAIN v.o}
            ELSE {})

\* The canonical value model: null, booleans, finite numbers, arbitrary-
\* precision integers, strings, arrays and objects of these
InValueModel(v) ==
  \A p \in Parts(v) : p.t \in {"null", "boolean", "number", "bigint", "string", "array", "object"}
                        /\ (p.t = "number" => p.kind # "nonfinite")

PlainJson(v) == \A p \in Parts(v) : p.t # "bigint" /\ p # JNegZero

\* Every object of a text, read in the order of the text, has its keys in
\* strictly ascending order
KeysAscending(v) ==
  \A p \in Parts(v) :
    p.t = "object" => \A i \in 1..(Len(p.o) - 1) : StrLess(p.o[i].k, p.o[i + 1].k)

\* C5: canonicalStringify returns the identical string for two values that
\* differ only in the insertion order of object keys, at any depth, or in
\* extra keys whose value is undefined: the keys are written in ascending
\* order and undefined-valued keys are left out, while the order of array
\* elements is kept (reversing an array that is no palindrome changes the
\* string).
C5_KeyOrderIndependent ==
  call.op = "canonicalStringifyBoth" =>
    /\ ret.status = "ok"
    /\ call.args.how # "arraysReversed" => ret.left = ret.right
    /\ KeysAscending(canonicalParse(ret.left).out)
    /\ (call.args.how = "arraysReversed"
          /\ ~StructEq(JsonImage(call.args.v), JsonImage(call.args.w)))
         => ret.left # ret.right

\* C5 happens: an object holding an object, both with their keys inserted
\* in descending order, and the same value with the keys the other way round
C5_Witness ==
  /\ call.op = "canonicalStringifyBoth"
  /\ call.args.how = "reversed"
  /\ call.args.v = JObject(<<Prop(<<"b">>, JObject(<<Prop(<<"b">>, JString(<<"a">>)),
                                                      Prop(<<"a">>, JNumber(1))>>)),
                             Prop(<<"a">>, JNumber(1))>>)
  /\ call.args.w # call.args.v
  /\ ret.left = ret.right

\* C6 as stated: for every value v of the canonical value model,
\* canonicalParse(canonicalStringify(v)) is structurally equal to v.
C6_ParseInvertsStringify ==
  (call.op = "canonicalRoundTrip" /\ InValueModel(call.args.v)) =>
    ret.status = "ok" /\ StructEq(ret.parsed, call.args.v)

\* C6: for every value v of the canonical value model,
\* canonicalParse(canonicalStringify(v)) is structurally equal to v with
\* every arbitrary-precision integer replaced by its decimal string and
\* negative zero by zero; so it is structurally equal to v itself when v
\* holds neither.
C6_ParseYieldsJsonImage ==
  (call.op = "canonicalRoundTrip" /\ InValueModel(call.args.v)) =>
    /\ ret.status = "ok"
    /\ StructEq(ret.parsed, JsonImage(call.args.v))
    /\ PlainJson(call.args.v) => StructEq(ret.parsed, call.args.v)

\* C6 happens: an array without bigints, a string that needs an escape in
\* it, comes back structurally equal
C6_Witness ==
  /\ call.op = "canonicalRoundTrip"
  /\ call.args.v = JArray(<<JString(<<"a", "\"", "b">>), JNumber(7)>>)
  /\ ret.status = "ok"
  /\ StructEq(ret.parsed, call.args.v)

\* No absent marker anywhere in v
NoAbsentMarker(v) == \A p \in Parts(v) : p.t # "undefined"

\* C30 as stated: two values of the canonical value model that contain no
\* absent markers and are structurally different (different type, different
\* value, or different set of keys at any position) never serialise to the
\* same string.
C30_DifferentValuesDifferentText ==
  (/\ call.op = "canonicalStringifyPair"
   /\ InValueModel(call.args.v) /\ InValueModel(call.args.w)
   /\ NoAbsentMarker(call.args.v) /\ NoAbsentMarker(call.args.w)
   /\ ~StructEq(call.args.v, call.args.w))
    => ret.status = "ok" /\ ret.left # ret.right

\* C30: two values of the canonical value model that contain no absent
\* markers never serialise to the same string when they are still
\* structurally different after every arbitrary-precision integer is
\* replaced by its decimal string and negative zero by zero; and they
\* serialise to the same string when they are not.
C30_DifferentImagesDifferentText ==
  (/\ call.op = "canonicalStringifyPair"
   /\ InValueModel(call.args.v) /\ InValueModel(call.args.w)
   /\ NoAbsentMarker(call.args.v) /\ NoAbsentMarker(call.args.w))
    => /\ ret.status = "ok"
       /\ ret.left = ret.right <=> StructEq(JsonImage(call.args.v), JsonImage(call.args.w))

\* C30 happens: the number 7 and the string "7" are serialised, one without
\* quotes and one with them
C30_Witness ==
  /\ call.op = "canonicalStringifyPair"
  /\ call.args.v = JNumber(7)
  /\ call.args.w = JString(<<"7">>)
  /\ ret.left = <<"7">>
  /\ ret.right = <<"\"", "7", "\"">>

(***************************************************************************)
(* Requests and results as the routes build them                           *)
(***************************************************************************)
OptString(x) == IF x = None THEN JUndefined ELSE JString(x[1])
OptNumber(x) == IF x = None THEN JUndefined ELSE JNumber(x[1])
Strings(xs) == JArray([i \in DOMAIN xs |-> JString(xs[i])])
OptStrings(x) == IF x = None THEN JUndefined ELSE Strings(x[1])

\* The CanonicalRequest of toCanonicalRequest
CanonicalRequest(n, n_type, mode, k, w, include, proof) ==
  JObject(<<Prop(<<"n">>, JString(n)), Prop(<<"n", "_", "t", "y", "p", "e">>, JString(n_type)),
            Prop(<<"m", "o", "d", "e">>, JString(mode)), Prop(<<"k">>, OptNumber(k)), Prop(<<"w">>, OptString(w)),
            Prop(<<"i", "n", "c", "l", "u", "d", "e">>, Strings(include)), Prop(<<"e", "n", "g", "i", "n", "e">>, JString(<<"s", "i", "e", "v", "e">>)),
            Prop(<<"v", "a", "l", "i", "d", "a", "t", "e">>, JString(<<"n", "o", "n", "e">>)), Prop(<<"p", "r", "o", "o", "f">>, JString(proof)),
            Prop(<<"f", "o", "r", "m", "a", "t">>, JString(<<"j", "s", "o", "n">>)), Prop(<<"c", "o", "m", "p", "r", "e", "s", "s">>, JString(<<"n", "o", "n", "e">>))>>)

\* A NeighborhoodResult as toNeighborhoodResult fills it in: the sections
\* that were not asked for are not set
NeighborhoodResult(n, n_type, mode, center_prime, primes, gaps, ratio, indices) ==
  JObject(SelectSeq(
    <<Prop(<<"n">>, JString(n)), Prop(<<"n", "_", "t", "y", "p", "e">>, JString(n_type)), Prop(<<"m", "o", "d", "e">>, JString(mode)),
      Prop(<<"c", "e", "n", "t", "e", "r", "_", "p", "r", "i", "m", "e">>, JString(center_prime)),
      Prop(<<"p", "r", "i", "m", "e", "s">>, OptStrings(primes)), Prop(<<"g", "a", "p", "s">>, OptStrings(gaps)),
      Prop(<<"r", "a", "t", "i", "o">>, IF ratio = None THEN JUndefined
                    ELSE JArray([i \in DOMAIN ratio[1] |->
                                   JObject(<<Prop(<<"n", "u", "m">>, JString(ratio[1][i].num)),
                                             Prop(<<"d", "e", "n">>, JString(ratio[1][i].den))>>)])),
      Prop(<<"i", "n", "d", "i", "c", "e", "s">>, IF indices = None THEN JUndefined
                      ELSE JArray([i \in DOMAIN indices[1] |-> JNumber(indices[1][i])]))>>,
    LAMBDA p : p.v # JUndefined))

NTypes == {<<"i", "n", "d", "e", "x">>, <<"v", "a", "l", "u", "e">>}
Modes == {<<"c", "o", "u", "n", "t">>, <<"s", "p", "a", "n">>}
IncludeFields == {<<"p", "r", "i", "m", "e", "s">>, <<"g", "a", "p", "s">>, <<"d", "2">>, <<"r", "a", "t", "i", "o">>, <<"i", "n", "d", "i", "c", "e", "s">>}
EngineNames == {<<"a", "u", "t", "o">>, <<"s", "i", "e", "v", "e">>, <<"m", "r", "6", "4">>, <<"b", "p", "s", "w">>, <<"m", "r", "-", "p", "r", "o", "b">>, <<"p", "r", "e", "c", "o", "m", "p", "u", "t", "e", "d">>}
ValidateModes == {<<"n", "o", "n", "e">>, <<"d", "u", "a", "l">>, <<"t", "r", "i", "p", "l", "e">>}
ProofLevels == {<<"n", "o", "n", "e">>, <<"r", "e", "c", "e", "i", "p", "t">>, <<"s", "i", "g", "n", "e", "d">>}
Formats == {<<"j", "s", "o", "n">>, <<"b", "i", "n">>}
Compressions == {<<"n", "o", "n", "e">>, <<"g", "z", "i", "p">>, <<"z", "s", "t", "d">>}


(***************************************************************************)
(* The requests and results that get signed, and the changes made to them  *)
(* afterwards.  A change sets one field of the request or of the result to *)
(* another value, or (value undefined) removes it.                         *)
(***************************************************************************)
Change(target, key, value) == [target |-> target, key |-> key, value |-> value]

NoChange == Change("none", <<>>, JUndefined)

\* obj with the field set, or deleted where the value is undefined
WithField(obj, key, value) ==
  IF value = JUndefined THEN JObject(SelectSeq(obj.o, LAMBDA p : p.k # key))
  ELSE JObject(DefineProp(obj.o, key, value))

Changed(obj, target, change) ==
  IF change.target = target THEN WithField(obj, change.key, change.value) ELSE obj

\* Changes that keep every field within its type
RequestChanges ==
  {Change("request", <<"n">>, JString(<<"4">>)), Change("request", <<"n", "_", "t", "y", "p", "e">>, JString(<<"v", "a", "l", "u", "e">>)),
   Change("request", <<"m", "o", "d", "e">>, JString(<<"s", "p", "a", "n">>)), Change("request", <<"k">>, JNumber(4)),
   Change("request", <<"k">>, JUndefined), Change("request", <<"w">>, JString(<<"1", "0", "0">>)),
   Change("request", <<"i", "n", "c", "l", "u", "d", "e">>, Strings(<<<<"g", "a", "p", "s">>>>)),
   Change("request", <<"i", "n", "c", "l", "u", "d", "e">>, Strings(<<<<"p", "r", "i", "m", "e", "s">>, <<"g", "a", "p", "s">>>>)),
   Change("request", <<"i", "n", "c", "l", "u", "d", "e">>, Strings(<<<<"d", "2">>, <<"g", "a", "p", "s">>, <<"p", "r", "i", "m", "e", "s">>>>)),
   Change("request", <<"e", "n", "g", "i", "n", "e">>, JString(<<"m", "r", "6", "4">>)),
   Change("request", <<"v", "a", "l", "i", "d", "a", "t", "e">>, JString(<<"d", "u", "a", "l">>)),
   Change("request", <<"p", "r", "o", "o", "f">>, JString(<<"r", "e", "c", "e", "i", "p", "t">>)),
   Change("request", <<"f", "o", "r", "m", "a", "t">>, JString(<<"b", "i", "n">>)),
   Change("request", <<"c", "o", "m", "p", "r", "e", "s", "s">>, JString(<<"g", "z", "i", "p">>))}

ResultChanges ==
  {Change("result", <<"n">>, JString(<<"4">>)), Change("result", <<"n", "_", "t", "y", "p", "e">>, JString(<<"v", "a", "l", "u", "e">>)),
   Change("result", <<"m", "o", "d", "e">>, JString(<<"s", "p", "a", "n">>)),
   Change("result", <<"c", "e", "n", "t", "e", "r", "_", "p", "r", "i", "m", "e">>, JString(<<"9", "9", "9", "9", "9", "9">>)),
   Change("result", <<"c", "e", "n", "t", "e", "r", "_", "p", "r", "i", "m", "e">>, JUndefined),
   Change("result", <<"p", "r", "i", "m", "e", "s">>, Strings(<<<<"5">>, <<"7">>, <<"1", "3">>>>)),
   Change("result", <<"p", "r", "i", "m", "e", "s">>, Strings(<<<<"5">>, <<"7">>>>)),
   Change("result", <<"p", "r", "i", "m", "e", "s">>, JUndefined),
   Change("result", <<"g", "a", "p", "s">>, Strings(<<<<"2">>, <<"6">>>>)),
   Change("result", <<"d", "2">>, Strings(<<<<"2">>>>)),
   Change("result", <<"r", "a", "t", "i", "o">>, JArray(<<JObject(<<Prop(<<"n", "u", "m">>, JString(<<"2">>)),
                                                Prop(<<"d", "e", "n">>, JString(<<"3">>))>>)>>)),
   Change("result", <<"i", "n", "d", "i", "c", "e", "s">>, JArray(<<JNumber(2), JNumber(3), JNumber(5)>>))}

\* Changes a posted body can carry besides: a field of the wrong type, and
\* a field no schema knows
BodyChanges ==
  {Change("request", <<"k">>, JString(<<"3">>)), Change("result", <<"p", "r", "i", "m", "e", "s">>, JString(<<"5">>)),
   Change("result", <<"n", "o", "t", "e">>, JString(<<"x">>)), Change("request", <<"n", "o", "t", "e">>, JString(<<"x">>))}

\* The request of GET /neighborhood?n=3&k=1&include=gaps,primes at a proof
\* level
ProofRequests(levels) ==
  {CanonicalRequest(<<"3">>, <<"i", "n", "d", "e", "x">>, <<"c", "o", "u", "n", "t">>, Some(1), None,
                    <<<<"g", "a", "p", "s">>, <<"p", "r", "i", "m", "e", "s">>>>, proof) : proof \in levels}

\* Requests as a caller of signResponse may hand them over: include in any
\* order
SignRequests ==
  ProofRequests({<<"s", "i", "g", "n", "e", "d">>})
    \cup {CanonicalRequest(<<"3">>, <<"i", "n", "d", "e", "x">>, <<"c", "o", "u", "n", "t">>, None, None,
                           <<<<"p", "r", "i", "m", "e", "s">>, <<"g", "a", "p", "s">>>>, <<"s", "i", "g", "n", "e", "d">>)}

SignResults ==
  {NeighborhoodResult(<<"3">>, <<"i", "n", "d", "e", "x">>, <<"c", "o", "u", "n", "t">>, <<"7">>, Some(<<<<"5">>, <<"7">>, <<"1", "1">>>>),
                      Some(<<<<"2">>, <<"4">>>>), None, None),
   NeighborhoodResult(<<"3">>, <<"i", "n", "d", "e", "x">>, <<"c", "o", "u", "n", "t">>, <<"7">>, None, None,
                      Some(<<[num |-> <<"1">>, den |-> <<"3">>]>>), Some(<<2, 3, 4>>))}

(***************************************************************************)
(* Hashing: src/unnamed/part_008 (crypto/hashing.ts)                       *)
(***************************************************************************)
HexDigits == <<"0", "1", "2", "3", "4", "5", "6", "7", "8", "9", "a", "b", "c", "d", "e", "f">>

\* A copy of include that is left in the caller's order
includeAsGiven(include) == include

\* [...request.include].sort()
sortedInclude(include) ==
  LET names == sort([i \in DOMAIN include.a |-> include.a[i].s])
  IN  JArray([i \in DOMAIN names |-> JString(names[i])])

\* sha256 taken as ideal: no two inputs have the same digest.  The digest of
\* an input is the input itself.
sha256(data) == data

\* bytesToHex of @noble/hashes: two lower-case hex digits a byte
bytesToHex(bytes) ==
  [i \in 1..(2 * Len(bytes)) |->
     HexDigits[(IF i % 2 = 1 THEN bytes[(i + 1) \div 2] \div 16
                             ELSE bytes[i \div 2] % 16) + 1]]

sha256Hex(data) == bytesToHex(sha256(data))

hashCanonical(obj) == sha256Hex(<<>> \o canonicalBytes(obj).out)

\* hashCanonical({...request, include: [...request.include].sort()})
computeRequestHash(request) ==
  hashCanonical(JObject(DefineProp(request.o, <<"i", "n", "c", "l", "u", "d", "e">>,
                                   sortedInclude(GetProp(request.o, <<"i", "n", "c", "l", "u", "d", "e">>)))))

computeResultHash(result) == hashCanonical(result)

(***************************************************************************)
(* Signing: src/api/src/crypto/signing.ts                                  *)
(*                                                                         *)
(* Ed25519 taken as ideal: a signature is determined by the message and    *)
(* the secret key, and it verifies under a public key only if it was made  *)
(* of that message with the secret key of that public key.  A secret key   *)
(* is one byte here (32 random bytes in the source).                       *)
(***************************************************************************)
SecretKeys == {<<1>>, <<2>>}

getPublicKey(secretKey) == [i \in DOMAIN secretKey |-> 255 - secretKey[i]]

ed25519sign(hash, secretKey) == secretKey \o hash

ed25519verify(sig, hash, publicKey) ==
  \E secretKey \in SecretKeys :
    getPublicKey(secretKey) = publicKey /\ sig = ed25519sign(hash, secretKey)

\* generateKeyPair(keyId), with the random secret key drawn by the caller
generateKeyPair(keyId, secretKey) ==
  [keyId |-> keyId, secretKey |-> secretKey, publicKey |-> getPublicKey(secretKey)]

Base64Alphabet ==
  <<"A", "B", "C", "D", "E", "F", "G", "H", "I", "J", "K", "L", "M", "N", "O", "P",
    "Q", "R", "S", "T", "U", "V", "W", "X", "Y", "Z", "a", "b", "c", "d", "e", "f",
    "g", "h", "i", "j", "k", "l", "m", "n", "o", "p", "q", "r", "s", "t", "u", "v",
    "w", "x", "y", "z", "0", "1", "2", "3", "4", "5", "6", "7", "8", "9", "+", "/">>

Base64Value ==
  [c \in {Base64Alphabet[i] : i \in DOMAIN Base64Alphabet} |->
     (CHOOSE i \in DOMAIN Base64Alphabet : Base64Alphabet[i] = c) - 1]

\* Buffer.from(data).toString('base64'): four characters for three bytes,
\* padded with "="
base64Encode(data) ==
  LET n == Len(data)
      byte(i) == IF i <= n THEN data[i] ELSE 0
      triple(g) == byte(3 * g + 1) * 65536 + byte(3 * g + 2) * 256 + byte(3 * g + 3)
  IN  [i \in 1..(4 * ((n + 2) \div 3)) |->
         LET g == (i - 1) \div 4
             j == (i - 1) % 4
         IN  IF (j = 2 /\ 3 * g + 2 > n) \/ (j = 3 /\ 3 * g + 3 > n) THEN "="
             ELSE Base64Alphabet[((triple(g) \div <<262144, 4096, 64, 1>>[j + 1]) % 64) + 1]]

\* new Uint8Array(Buffer.from(b64, 'base64')): the data ends at the first
\* padding character, characters outside the alphabet are skipped, and a
\* last group of two or three characters gives one or two bytes
base64Decode(b64) ==
  LET end == IF \E i \in DOMAIN b64 : b64[i] = "="
               THEN CHOOSE i \in DOMAIN b64 :
                      b64[i] = "=" /\ \A j \in 1..(i - 1) : b64[j] # "="
               ELSE Len(b64) + 1
      chars == SelectSeq(SubSeq(b64, 1, end - 1), LAMBDA c : c \in DOMAIN Base64Value)
      m == Len(chars)
      val(i) == IF i <= m THEN Base64Value[chars[i]] ELSE 0
      quad(g) == val(4 * g + 1) * 262144 + val(4 * g + 2) * 4096
                   + val(4 * g + 3) * 64 + val(4 * g + 4)
      outLen == 3 * (m \div 4) + (IF m % 4 = 2 THEN 1 ELSE IF m % 4 = 3 THEN 2 ELSE 0)
  IN  [i \in 1..outLen |->
         (quad((i - 1) \div 3) \div <<65536, 256, 1>>[((i - 1) % 3) + 1]) % 256]

\* The object {request, result, receipt}
Triple(request, result, receipt) ==
  JObject(<<Prop(<<"r", "e", "q", "u", "e", "s", "t">>, request), Prop(<<"r", "e", "s", "u", "l", "t">>, result), Prop(<<"r", "e", "c", "e", "i", "p", "t">>, receipt)>>)

signResponse(request, result, receipt, keyPair) ==
  LET toSign == Triple(request, result, receipt)
      hash == sha256(canonicalBytes(toSign).out)
      signature == ed25519sign(hash, keyPair.secretKey)
  IN  [alg |-> "ed25519", key_id |-> keyPair.keyId, signed_hash_alg |-> "sha256",
       sig_b64 |-> base64Encode(signature)]

\* A verification that looks only at who made the signature
verifySignatureKeyOnly(request, result, receipt, signature, publicKey) ==
  LET sig == base64Decode(signature.sig_b64)
  IN  \E secretKey \in SecretKeys :
        getPublicKey(secretKey) = publicKey /\ SubSeq(sig, 1, Len(secretKey)) = secretKey

\* ed25519.verify(sig, sha256(bytes), publicKey) in try { ... } catch {
\* return false }
verifyBytes(bytes, sig, publicKey) ==
  IF bytes.status # "ok" THEN FALSE ELSE ed25519verify(sig, sha256(bytes.out), publicKey)

verifySignature(request, result, receipt, signature, publicKey) ==
  verifyBytes(canonicalBytes(Triple(request, result, receipt)),
              base64Decode(signature.sig_b64), publicKey)

(***************************************************************************)
(* Key store: src/api/src/config/keys.ts.  signingKeys is null (None)      *)
(* until the first access, then the list with the primary key.             *)
(***************************************************************************)
\* ensureInitialized(), with the random secret key of generateKeyPair
ensureInitialized(keys, secretKey) ==
  IF keys # None THEN keys
  ELSE Some(<<[keyId |-> "primary-v1", keyPair |-> generateKeyPair("primary-v1", secretKey)]>>)

\* primaryKey?.keyPair of an initialized store
getPrimaryKeyPair(keys) == keys[1][1].keyPair

\* signingKeys.find((k) => k.keyId === keyId)?.keyPair.publicKey ?? null
getPublicKeyById(keys, keyId) ==
  LET found == SelectSeq(keys[1], LAMBDA k : k.keyId = keyId)
  IN  IF found = <<>> THEN None ELSE Some(found[1].keyPair.publicKey)

\* The receipt of the neighborhood route
Receipt(request, result, agreement, generated_at) ==
  JObject(<<Prop(<<"r", "e", "q", "u", "e", "s", "t", "_", "h", "a", "s", "h">>, JString(computeRequestHash(request))),
            Prop(<<"r", "e", "s", "u", "l", "t", "_", "h", "a", "s", "h">>, JString(computeResultHash(result))),
            Prop(<<"e", "n", "g", "i", "n", "e", "s">>, Strings(<<<<"s", "i", "e", "v", "e">>>>)),
            Prop(<<"v", "a", "l", "i", "d", "a", "t", "i", "o", "n">>, JObject(<<Prop(<<"m", "o", "d", "e">>, GetProp(request.o, <<"v", "a", "l", "i", "d", "a", "t", "e">>)),
                                         Prop(<<"a", "g", "r", "e", "e", "m", "e", "n", "t">>, JBool(agreement))>>)),
            Prop(<<"d", "e", "t", "e", "r", "m", "i", "n", "i", "s", "t", "i", "c">>, JBool(TRUE)),
            Prop(<<"g", "e", "n", "e", "r", "a", "t", "e", "d", "_", "a", "t">>, JString(generated_at))>>)

\* The receipt and the signature block that the proof level asks for
withProof(keys, request, result, proof, receipt) ==
  IF proof = <<"n", "o", "n", "e">>
    THEN [request |-> request, result |-> result, receipt |-> None, signature |-> None]
  ELSE IF proof = <<"r", "e", "c", "e", "i", "p", "t">>
    THEN [request |-> request, result |-> result, receipt |-> Some(receipt),
          signature |-> None]
  ELSE [request |-> request, result |-> result, receipt |-> Some(receipt),
        signature |-> Some(signResponse(request, result, receipt, getPrimaryKeyPair(keys)))]

\* The neighborhood route from the proof level on: the body it answers
neighborhoodResponse(keys, request, result, agreement, generated_at) ==
  withProof(keys, request, result, GetProp(request.o, <<"p", "r", "o", "o", "f">>).s,
            Receipt(request, result, agreement, generated_at))

\* c.json(response) and the client's res.json(): properties whose value is
\* undefined do not travel
OverTheWire(response) ==
  [response EXCEPT !.request = Rearranged(@, "stripped"),
                   !.result = Rearranged(@, "stripped")]

(***************************************************************************)
(* POST /verify: src/unnamed/part_004 (routes/verify.ts) with the schemas  *)
(* of src/api/src/schemas/query-params.ts.  A body is the parsed JSON: its *)
(* request and result are JS values, its receipt and signature blocks are  *)
(* well-formed or absent.                                                  *)
(***************************************************************************)
IsString(v) == v.t = "string"
IsOneOf(v, names) == v.t = "string" /\ v.s \in names
IsArrayOf(v, Ok(_)) == v.t = "array" /\ \A i \in DOMAIN v.a : Ok(v.a[i])
IsOptional(v, Ok(_)) == v = JUndefined \/ Ok(v)
IsPositiveInt(v) == v.t = "number" /\ v.kind = "finite" /\ v.n > 0
IsNumber(v) == v.t = "number" /\ v.kind # "nonfinite"
IsRational(v) ==
  v.t = "object" /\ IsString(GetProp(v.o, <<"n", "u", "m">>)) /\ IsString(GetProp(v.o, <<"d", "e", "n">>))

\* The object zod hands back: the keys of the schema that the input has,
\* unknown keys stripped
Pick(v, keys) ==
  JObject(SelectSeq([i \in DOMAIN keys |-> Prop(keys[i], GetProp(v.o, keys[i]))],
                    LAMBDA p : p.v # JUndefined))

\* CanonicalRequestSchema.safeParse: None where it fails
parseCanonicalRequest(v) ==
  IF /\ v.t = "object"
     /\ IsString(GetProp(v.o, <<"n">>))
     /\ IsOneOf(GetProp(v.o, <<"n", "_", "t", "y", "p", "e">>), NTypes)
     /\ IsOneOf(GetProp(v.o, <<"m", "o", "d", "e">>), Modes)
     /\ IsOptional(GetProp(v.o, <<"k">>), IsPositiveInt)
     /\ IsOptional(GetProp(v.o, <<"w">>), IsString)
     /\ IsArrayOf(GetProp(v.o, <<"i", "n", "c", "l", "u", "d", "e">>), LAMBDA x : IsOneOf(x, IncludeFields))
     /\ IsOneOf(GetProp(v.o, <<"e", "n", "g", "i", "n", "e">>), EngineNames)
     /\ IsOneOf(GetProp(v.o, <<"v", "a", "l", "i", "d", "a", "t", "e">>), ValidateModes)
     /\ IsOneOf(GetProp(v.o, <<"p", "r", "o", "o", "f">>), ProofLevels)
     /\ IsOneOf(GetProp(v.o, <<"f", "o", "r", "m", "a", "t">>), Formats)
     /\ IsOneOf(GetProp(v.o, <<"c", "o", "m", "p", "r", "e", "s", "s">>), Compressions)
    THEN Some(Pick(v, <<<<"n">>, <<"n", "_", "t", "y", "p", "e">>, <<"m", "o", "d", "e">>, <<"k">>, <<"w">>, <<"i", "n", "c", "l", "u", "d", "e">>, <<"e", "n", "g", "i", "n", "e">>, <<"v", "a", "l", "i", "d", "a", "t", "e">>,
                        <<"p", "r", "o", "o", "f">>, <<"f", "o", "r", "m", "a", "t">>, <<"c", "o", "m", "p", "r", "e", "s", "s">>>>))
    ELSE None

\* NeighborhoodResultSchema.safeParse: None where it fails
parseNeighborhoodResult(v) ==
  IF /\ v.t = "object"
     /\ IsString(GetProp(v.o, <<"n">>))
     /\ IsOneOf(GetProp(v.o, <<"n", "_", "t", "y", "p", "e">>), NTypes)
     /\ IsOneOf(GetProp(v.o, <<"m", "o", "d", "e">>), Modes)
     /\ IsOptional(GetProp(v.o, <<"c", "e", "n", "t", "e", "r", "_", "p", "r", "i", "m", "e">>), IsString)
     /\ IsOptional(GetProp(v.o, <<"p", "r", "i", "m", "e", "s">>), LAMBDA x : IsArrayOf(x, IsString))
     /\ IsOptional(GetProp(v.o, <<"g", "a", "p", "s">>), LAMBDA x : IsArrayOf(x, IsString))
     /\ IsOptional(GetProp(v.o, <<"d", "2">>), LAMBDA x : IsArrayOf(x, IsString))
     /\ IsOptional(GetProp(v.o, <<"r", "a", "t", "i", "o">>), LAMBDA x : IsArrayOf(x, IsRational))
     /\ IsOptional(GetProp(v.o, <<"i", "n", "d", "i", "c", "e", "s">>), LAMBDA x : IsArrayOf(x, IsNumber))
    THEN LET picked == Pick(v, <<<<"n">>, <<"n", "_", "t", "y", "p", "e">>, <<"m", "o", "d", "e">>, <<"c", "e", "n", "t", "e", "r", "_", "p", "r", "i", "m", "e">>, <<"p", "r", "i", "m", "e", "s">>, <<"g", "a", "p", "s">>,
                                 <<"d", "2">>, <<"r", "a", "t", "i", "o">>, <<"i", "n", "d", "i", "c", "e", "s">>>>)
             ratio == GetProp(picked.o, <<"r", "a", "t", "i", "o">>)
         IN  Some(IF ratio = JUndefined THEN picked
                  ELSE JObject(DefineProp(picked.o, <<"r", "a", "t", "i", "o">>,
                         JArray([i \in DOMAIN ratio.a |-> Pick(ratio.a[i], <<<<"n", "u", "m">>, <<"d", "e", "n">>>>)]))))
    ELSE None

\* receipt.request_hash === expectedRequestHash, and the like for the result:
\* true where the body has no receipt
hashMatch(receipt, key, expected) ==
  IF receipt # None THEN GetProp(receipt[1].o, key) = JString(expected) ELSE TRUE

\* checks.signature and the error of a signature that was checked
signatureOutcome(valid) ==
  [check |-> Some(valid),
   errors |-> IF valid THEN <<>> ELSE <<"Signature verification failed">>]

signatureUnder(publicKey, request, result, receipt, signature) ==
  IF publicKey = None THEN [check |-> Some(FALSE), errors |-> <<"Unknown signing key">>]
  ELSE signatureOutcome(verifySignature(request, result, receipt, signature, publicKey[1]))

\* if (signature && receipt) { ... }
signatureCheck(keys, request, result, receipt, signature) ==
  IF signature # None /\ receipt # None
    THEN signatureUnder(getPublicKeyById(keys, signature[1].key_id), request, result,
                        receipt[1], signature[1])
    ELSE [check |-> None, errors |-> <<>>]

\* c.json({valid, checks, errors})
verifyAnswer(hasReceipt, requestHashMatch, resultHashMatch, checked) ==
  LET errors ==
        (IF hasReceipt /\ ~requestHashMatch THEN <<"Request hash mismatch">> ELSE <<>>)
          \o (IF hasReceipt /\ ~resultHashMatch THEN <<"Result hash mismatch">> ELSE <<>>)
          \o checked.errors
  IN  [status |-> "ok", http |-> 200, valid |-> Some(errors = <<>>),
       checks |-> Some([request_hash |-> requestHashMatch,
                        result_hash |-> resultHashMatch,
                        signature |-> checked.check]),
       errors |-> errors]

verifyParsed(keys, parsedRequest, parsedResult, receipt, signature) ==
  IF parsedRequest = None \/ parsedResult = None
    THEN [status |-> "ok", http |-> 400, valid |-> None, checks |-> None,
          errors |-> <<"Invalid request body">>]
    ELSE verifyAnswer(receipt # None,
                      hashMatch(receipt, <<"r", "e", "q", "u", "e", "s", "t", "_", "h", "a", "s", "h">>,
                                computeRequestHash(parsedRequest[1])),
                      hashMatch(receipt, <<"r", "e", "s", "u", "l", "t", "_", "h", "a", "s", "h">>,
                                computeResultHash(parsedResult[1])),
                      signatureCheck(keys, parsedRequest[1], parsedResult[1], receipt,
                                     signature))

\* verifyRoute.post once the body is parsed JSON
verifyRoutePost(keys, body) ==
  verifyParsed(keys, parseCanonicalRequest(body.request),
               parseNeighborhoodResult(body.result), body.receipt, body.signature)

(***************************************************************************)
(* Signing and verification as a state machine                             *)
(***************************************************************************)
Timestamps == {<<"2", "0", "2", "6", "-", "0", "1", "-", "0", "1", "T", "0", "0", ":", "0", "0", ":", "0", "0", ".", "0", "0", "0", "Z">>}

KeyPairs == {generateKeyPair("primary-v1", secretKey) : secretKey \in SecretKeys}

\* Signature blocks nobody signed: an empty text, and a text that is no
\* base64 at all
BadSignatures ==
  {[alg |-> "ed25519", key_id |-> "primary-v1", signed_hash_alg |-> "sha256", sig_b64 |-> b64] :
     b64 \in {<<>>, <<"!", "!">>, <<"A", "Q", "=", "=">>}}

InitSign ==
  /\ cachedPrimes = <<>>
  /\ sieveLimit = 0
  /\ signingKeys = None
  /\ call = [op |-> "idle"]
  /\ ret = [status |-> "none"]
  /\ InitService

\* A call of a route, which initializes the key store on its first access
Keyed(op, args, r, keys) ==
  /\ Idle
  /\ call' = [op |-> op, args |-> args]
  /\ ret' = r
  /\ signingKeys' = keys
  /\ UNCHANGED <<cachedPrimes, sieveLimit, service>>

CallSignResponse ==
  /\ Idle
  /\ \E request \in SignRequests, result \in SignResults, keyPair \in KeyPairs,
     generated_at \in Timestamps :
       \E receipt \in {Receipt(request, result, TRUE, generated_at)} :
         Pure("signResponse",
              [request |-> request, result |-> result, receipt |-> receipt,
               keyPair |-> keyPair],
              [status |-> "ok", out |-> signResponse(request, result, receipt, keyPair)])

\* verifySignature of what signResponse signed, after a change of one field
\* or of none, under the signer's public key
CallVerifySignature ==
  /\ Idle
  /\ \E request \in SignRequests, result \in SignResults, keyPair \in KeyPairs,
     generated_at \in Timestamps, change \in RequestChanges \cup ResultChanges \cup {NoChange} :
       \E receipt \in {Receipt(request, result, TRUE, generated_at)} :
         \E signature \in {signResponse(request, result, receipt, keyPair)},
            request2 \in {Changed(request, "request", change)},
            result2 \in {Changed(result, "result", change)} :
           Pure("verifySignature",
                [request |-> request, result |-> result, receipt |-> receipt,
                 keyPair |-> keyPair, change |-> change,
                 submitted |-> [request |-> request2, result |-> result2],
                 signature |-> signature, publicKey |-> keyPair.publicKey],
                [status |-> "ok",
                 out |-> verifySignature(request2, result2, receipt, signature,
                                         keyPair.publicKey)])

\* verifySignature of what signResponse signed under the public key of
\* another key pair
CallVerifyOtherKey ==
  /\ Idle
  /\ \E request \in SignRequests, result \in SignResults, keyPair \in KeyPairs,
     generated_at \in Timestamps, other \in KeyPairs :
       /\ other # keyPair
       /\ \E receipt \in {Receipt(request, result, TRUE, generated_at)} :
            \E signature \in {signResponse(request, result, receipt, keyPair)} :
              Pure("verifySignature",
                   [request |-> request, result |-> result, receipt |-> receipt,
                    keyPair |-> keyPair, change |-> NoChange,
                    submitted |-> [request |-> request, result |-> result],
                    signature |-> signature, publicKey |-> other.publicKey],
                   [status |-> "ok",
                    out |-> verifySignature(request, result, receipt, signature,
                                            other.publicKey)])

\* verifySignature of a signature block that was not made by signResponse
CallVerifyBadSignature ==
  /\ Idle
  /\ \E request \in SignRequests, result \in SignResults, keyPair \in KeyPairs,
     generated_at \in Timestamps, signature \in BadSignatures :
       \E receipt \in {Receipt(request, result, TRUE, generated_at)} :
         Pure("verifySignature",
              [request |-> request, result |-> result, receipt |-> receipt,
               keyPair |-> keyPair, change |-> NoChange,
               submitted |-> [request |-> request, result |-> result],
               signature |-> signature, publicKey |-> keyPair.publicKey],
              [status |-> "ok",
               out |-> verifySignature(request, result, receipt, signature,
                                       keyPair.publicKey)])

\* GET /neighborhood from the proof level on
CallNeighborhoodResponse ==
  /\ Idle
  /\ \E request \in ProofRequests(ProofLevels), result \in SignResults,
     generated_at \in Timestamps, secretKey \in SecretKeys :
       \E keys \in {ensureInitialized(signingKeys, secretKey)} :
         Keyed("neighborhoodResponse",
               [request |-> request, result |-> result, generated_at |-> generated_at],
               [status |-> "ok",
                out |-> neighborhoodResponse(keys, request, result, TRUE, generated_at)],
               keys)

\* The changes a posted body is tried with
RouteChanges ==
  {change \in RequestChanges \cup ResultChanges :
     change.key \in {<<"n">>, <<"i", "n", "c", "l", "u", "d", "e">>, <<"c", "e", "n", "t", "e", "r", "_", "p", "r", "i", "m", "e">>,
                     <<"p", "r", "i", "m", "e", "s">>}}
    \cup BodyChanges \cup {NoChange}

\* The body a client posts: a response this service issued, as it arrived,
\* with one field changed or none, and with its receipt or signature left
\* out or not
PostedBody(issued, change, drop) ==
  [request |-> Changed(issued.request, "request", change),
   result |-> Changed(issued.result, "result", change),
   receipt |-> IF drop = "receipt" THEN None ELSE issued.receipt,
   signature |-> IF drop = "signature" THEN None ELSE issued.signature]

\* POST /verify of a body made from a response of this service
CallVerifyRoute ==
  /\ Idle
  /\ signingKeys # None
  /\ \E request \in ProofRequests(ProofLevels), result \in SignResults,
     generated_at \in Timestamps,
     change \in RouteChanges,
     drop \in {"nothing", "receipt", "signature"} :
       \E issued \in {OverTheWire(neighborhoodResponse(signingKeys, request, result, TRUE,
                                                       generated_at))} :
         \E body \in {PostedBody(issued, change, drop)} :
           Keyed("verifyRoute", [issued |-> issued, body |-> body, change |-> change],
                 verifyRoutePost(signingKeys, body), signingKeys)

\* POST /verify of a body signed elsewhere: under a key id the store does
\* not have, or under the primary key's id with another secret key; the
\* first access initializes the store
CallVerifyForeign ==
  /\ Idle
  /\ \E request \in ProofRequests({<<"s", "i", "g", "n", "e", "d">>}), result \in SignResults,
     generated_at \in Timestamps, keyId \in {"primary-v1", "other-v1"},
     foreign \in SecretKeys, secretKey \in SecretKeys :
       \E keys \in {ensureInitialized(signingKeys, secretKey)},
          receipt \in {Receipt(request, result, TRUE, generated_at)} :
         \E signature \in {signResponse(request, result, receipt,
                                        generateKeyPair(keyId, foreign))} :
           \E body \in {OverTheWire([request |-> request, result |-> result,
                                     receipt |-> Some(receipt),
                                     signature |-> Some(signature)])} :
             Keyed("verifyForeign", [body |-> body, signer |-> foreign],
                   verifyRoutePost(keys, body), keys)

MaxInclude == 3

\* The include arrays of up to MaxInclude distinct fields, in every order
IncludeOrders ==
  {include \in UNION {[1..len -> IncludeFields] : len \in 0..MaxInclude} :
     \A i, j \in DOMAIN include : i # j => include[i] # include[j]}

\* computeRequestHash of two requests that differ in the order of include
\* and in nothing else
CallComputeRequestHashBoth ==
  /\ Idle
  /\ \E left \in IncludeOrders, right \in IncludeOrders :
       /\ Elements(left) = Elements(right)
       /\ Pure("computeRequestHashBoth", [left |-> left, right |-> right],
               [status |-> "ok",
                left |-> computeRequestHash(CanonicalRequest(<<"3">>, <<"i", "n", "d", "e", "x">>, <<"c", "o", "u", "n", "t">>,
                                                             Some(1), None, left, <<"n", "o", "n", "e">>)),
                right |-> computeRequestHash(CanonicalRequest(<<"3">>, <<"i", "n", "d", "e", "x">>, <<"c", "o", "u", "n", "t">>,
                                                              Some(1), None, right, <<"n", "o", "n", "e">>))])

NextSign ==
  \/ CallSignResponse
  \/ CallVerifySignature
  \/ CallVerifyOtherKey
  \/ CallVerifyBadSignature
  \/ CallComputeRequestHashBoth
  \/ Return

SpecSign == InitSign /\ [][NextSign]_vars

NextVerify ==
  \/ CallNeighborhoodResponse
  \/ CallVerifyRoute
  \/ CallVerifyForeign
  \/ Return

SpecVerify == InitSign /\ [][NextVerify]_vars

(***************************************************************************)
(* Claims on signing and on the verify endpoint                            *)
(***************************************************************************)
SameRequestAndResult(a, b) == StructEq(a.request, b.request) /\ StructEq(a.result, b.result)

\* C1: with SHA-256 and Ed25519 ideal, verifySignature of the signature that
\* signResponse made of (request, result, receipt) with a key pair, under
\* that key pair's public key, is true for the request and result that were
\* signed and false once a field of the request or of the result has been
\* changed.
C1_SignVerifyRoundTrip ==
  (/\ call.op = "verifySignature"
   /\ call.args.signature = signResponse(call.args.request, call.args.result,
                                         call.args.receipt, call.args.keyPair)
   /\ call.args.publicKey = call.args.keyPair.publicKey)
    => ret.out = SameRequestAndResult(call.args.submitted, call.args)

\* C1 happens: a signed result whose center_prime was changed afterwards is
\* refused under the signer's public key
C1_Witness ==
  /\ call.op = "verifySignature"
  /\ call.args.publicKey = call.args.keyPair.publicKey
  /\ call.args.change = Change("result", <<"c", "e", "n", "t", "e", "r", "_", "p", "r", "i", "m", "e">>, JString(<<"9", "9", "9", "9", "9", "9">>))
  /\ Len(call.args.signature.sig_b64) > 4
  /\ ret.out = FALSE

\* The signed triple itself verifies
C1_WitnessUnchanged ==
  /\ call.op = "verifySignature"
  /\ call.args.publicKey = call.args.keyPair.publicKey
  /\ call.args.change = NoChange
  /\ Len(call.args.signature.sig_b64) > 4
  /\ ret.out = TRUE

\* The body carries a signature block or a receipt that this service issued
CarriesIssuedProof(body, issued) ==
  \/ body.signature # None /\ body.signature = issued.signature
  \/ body.receipt # None /\ body.receipt = issued.receipt

\* C2: POST /verify detects tampering: for every body that carries a
\* signature block or a receipt issued by this service, if the body's
\* request or result differs from the one they were issued for, the response
\* does not have valid = true.
C2_VerifyDetectsTampering ==
  (/\ call.op = "verifyRoute"
   /\ CarriesIssuedProof(call.args.body, call.args.issued)
   /\ ~SameRequestAndResult(call.args.body, call.args.issued))
    => ret.valid # Some(TRUE)

\* With both the receipt and the signature in the body, a change of a field
\* that the schemas know is detected
C2_DetectedWithFullProof ==
  (/\ call.op = "verifyRoute"
   /\ call.args.body.receipt # None
   /\ call.args.body.signature # None
   /\ call.args.change \in RequestChanges \cup ResultChanges
   /\ ~SameRequestAndResult(call.args.body, call.args.issued))
    => ret.valid = Some(FALSE)

\* C18: computeRequestHash gives the same hash for any two requests that
\* differ only in the order of the entries of their include field, whether
\* or not the caller sorted include beforehand.
C18_IncludeOrderIndependent ==
  call.op = "computeRequestHashBoth" => ret.left = ret.right

\* C18 witness: include given as primes, gaps, d2 and as its sorted order d2,
\* gaps, primes hashed alike.
C18_Witness ==
  /\ call.op = "computeRequestHashBoth"
  /\ call.args.left = <<<<"p", "r", "i", "m", "e", "s">>, <<"g", "a", "p", "s">>, <<"d", "2">>>>
  /\ call.args.right = <<<<"d", "2">>, <<"g", "a", "p", "s">>, <<"p", "r", "i", "m", "e", "s">>>>
  /\ ret.left = ret.right

(***************************************************************************)
(* The in-memory job queue: src/api/src/services/job-queue.ts and the      *)
(* routes of src/api/src/routes/jobs.ts.                                   *)
(*                                                                         *)
(* `jobs` is the Map of the module in insertion order; a job keeps its     *)
(* place in the sequence when createJob evicts it (inMap = FALSE).  A POST *)
(* /jobs handler is in flight between its limit check and its             *)
(* `await c.req.json()`; the processJob of a job is in flight between its  *)
(* timer and its end.  The routes that list, show and delete jobs write no *)
(* status and are left out.  A computation that never returns keeps the    *)
(* one JS thread: nothing else                                             *)
(* runs after it.  `posts` counts, for each caller, the handlers that wait  *)
(* for their body.  The limits are scaled down: asyncJobs of the free tier *)
(* is 5 in the source, MAX_JOBS 100, LARGE_INDEX_THRESHOLD 500_000.        *)
(***************************************************************************)
asyncJobsFree == 2
MAX_JOBS == 2
LARGE_INDEX_THRESHOLD == 80

\* auth?.limits || TIER_LIMITS.free: the model's users are of the free tier
limitOf(userId) == asyncJobsFree

Active(job) == job.status = "pending" \/ job.status = "running"

Finished(job) == job.status = "completed" \/ job.status = "failed"

\* A count that forgets the jobs that are already running
countPendingJobs(js, userId) ==
  Cardinality({i \in DOMAIN js : js[i].inMap /\ js[i].status = "pending"
                                   /\ (userId = None \/ js[i].userId = userId)})

\* Without a user every active job of the map counts; with one, the active
\* jobs among the ids of jobsByUser.get(userId)
countUserJobs(js, userId) ==
  Cardinality({i \in DOMAIN js : js[i].inMap /\ Active(js[i])
                                   /\ (userId = None \/ js[i].userId = userId)})

\* jobs.size
MapSize(js) == Cardinality({i \in DOMAIN js : js[i].inMap})

\* The first finished job in the Map's order, if jobs.size >= MAX_JOBS
Evictable(js) ==
  IF MapSize(js) >= MAX_JOBS
    THEN {i \in DOMAIN js : /\ js[i].inMap /\ Finished(js[i])
                            /\ \A h \in 1..(i - 1) : ~(js[h].inMap /\ Finished(js[h]))}
    ELSE {}

evictOldest(js) == [i \in DOMAIN js |-> IF i \in Evictable(js) THEN [js[i] EXCEPT !.inMap = FALSE] ELSE js[i]]

\* A processJob that leaves the status alone until the work is done
processJobStartLate(job) == [job EXCEPT !.pc = "timer"]

\* processJob up to its first await: the job is running, the timer is set
processJobStart(job) == [job EXCEPT !.status = "running", !.pc = "timer"]

\* createJob: evict, insert the pending job, start processJob
createJob(js, request, userId) ==
  Append(evictOldest(js),
         processJobStart([id |-> Len(js) + 1, status |-> "pending", request |-> request,
                          userId |-> userId, result |-> None, error |-> None,
                          pc |-> "created", inMap |-> TRUE]))

\* parseInt of a decimal string
parseInt(s) == BigIntOfString(s)[1]

\* The steps of the standard path, each on the outcome of the one before
processValidated(request, result, validation) ==
  IF validation.status # "ok" THEN [status |-> "throws", e |-> validation.e, result |-> None]
  ELSE [status |-> "ok", e |-> validation.e, result |-> Some([request |-> request, result |-> result])]

processResult(request, data, result) ==
  IF result.status # "ok" THEN [status |-> "throws", e |-> data.e, result |-> None]
  ELSE processValidated(request, result.out, validateNeighborhood(data.e, data, request.validate))

processComputed(request, data) ==
  IF data.status # "ok" THEN [status |-> data.status, e |-> data.e, result |-> None]
  ELSE processResult(request, data, toNeighborhoodResult(request, data))

processStandard(e, request) ==
  IF parseComputeOptions(request).status # "ok" THEN [status |-> "throws", e |-> e, result |-> None]
  ELSE processComputed(request, computeNeighborhood(e, parseComputeOptions(request).out))

\* findPrimesAroundLargeIndex (services/chunked-sieve.ts) either resolves
\* with a window or rejects; the response is built from what it resolves with
LargeOutcomes == {"ok", "throws"}

processLarge(e, request, large) ==
  IF large = "ok"
    THEN [status |-> "ok", e |-> e, result |-> Some([request |-> request, result |-> "chunked"])]
    ELSE [status |-> "throws", e |-> e, result |-> None]

\* The body of processJob's try block, with proof = none
processBody(e, request, large) ==
  IF (IF request.n_type = "index" THEN parseInt(request.n) ELSE 0) > LARGE_INDEX_THRESHOLD
    THEN processLarge(e, request, large)
    ELSE processStandard(e, request)

\* A catch block that leaves the job as it is
processJobEndNoCatch(job, outcome) ==
  IF outcome.status = "ok"
    THEN [job EXCEPT !.status = "completed", !.result = outcome.result, !.pc = "done"]
  ELSE IF outcome.status = "throws"
    THEN [job EXCEPT !.pc = "done"]
  ELSE [job EXCEPT !.pc = "diverged"]

\* The end of processJob: completed with the response, failed with the
\* error's message, or never reached
processJobEnd(job, outcome) ==
  IF outcome.status = "ok"
    THEN [job EXCEPT !.status = "completed", !.result = outcome.result, !.pc = "done"]
  ELSE IF outcome.status = "throws"
    THEN [job EXCEPT !.status = "failed", !.error = Some("message"), !.pc = "done"]
  ELSE [job EXCEPT !.pc = "diverged"]

\* The bodies POST /jobs receives: requests that pass JobCreateSchema (every
\* n, every positive k), a body that does not, and one that is no JSON.
\* include is left out or names one field, so its sort changes nothing.
JobBodies ==
  {[n |-> Str(3), n_type |-> "index", mode |-> "count", k |-> Some(1), w |-> None,
    include |-> Some(<<"primes">>), validate |-> "dual"],
   [n |-> Str(-1), n_type |-> "index", mode |-> "count", k |-> Some(1), w |-> None,
    include |-> None, validate |-> "none"],
   [n |-> Str(maxLimit), n_type |-> "value", mode |-> "count", k |-> Some(1), w |-> None,
    include |-> Some(<<"primes">>), validate |-> "none"],
   [n |-> Str(LARGE_INDEX_THRESHOLD + 1), n_type |-> "index", mode |-> "count", k |-> Some(1), w |-> None,
    include |-> Some(<<"primes">>), validate |-> "none"]}

\* What arrives: text that is no JSON, JSON that fails the schema, a job
Arrivals == {"no json", "no job", "job"}

\* The canonical request of the route
jobRequest(data) ==
  [n |-> data.n, n_type |-> data.n_type, mode |-> data.mode, k |-> data.k, w |-> data.w,
   include |-> IF data.include = None THEN <<"d2", "gaps", "primes", "ratio">> ELSE data.include[1],
   engine |-> "sieve", validate |-> data.validate, proof |-> "none",
   format |-> "json", compress |-> "none"]

\* No computation holds the thread
Running == \A i \in DOMAIN jobs : jobs[i].pc # "diverged"

Respond(op, args, response) ==
  /\ call' = [op |-> op, args |-> args]
  /\ ret' = response

\* A step that answers no request
NoResponse ==
  /\ call' = [op |-> "idle"]
  /\ ret' = [status |-> "none"]

InFlight == posts[None] + posts[Some("alice")]

\* POST /jobs up to `await c.req.json()`: the limit check
PostJobsCheck(callers) ==
  /\ Running
  /\ \E userId \in callers :
       IF countUserJobs(jobs, userId) >= limitOf(userId)
         THEN /\ Respond("POST /jobs", [userId |-> userId],
                         [code |-> 429, active_jobs |-> countUserJobs(jobs, userId),
                          limit |-> limitOf(userId)])
              /\ UNCHANGED posts
         ELSE /\ InFlight < MaxHandlers
              /\ posts' = [posts EXCEPT ![userId] = @ + 1]
              /\ NoResponse
  /\ UNCHANGED <<cachedPrimes, sieveLimit, signingKeys, jobs, usersKv, requests>>

\* POST /jobs after the body has arrived: 400, or createJob and 202
PostJobsBody(bodies) ==
  /\ Running
  /\ \E userId \in UserIds, arrival \in Arrivals, body \in bodies :
       /\ posts[userId] > 0
       /\ posts' = [posts EXCEPT ![userId] = @ - 1]
       /\ IF arrival # "job"
            THEN /\ Respond("POST /jobs", [userId |-> userId], [code |-> 400])
                 /\ UNCHANGED jobs
            ELSE /\ Len(jobs) < MaxJobs
                 /\ jobs' = createJob(jobs, jobRequest(body), userId)
                 /\ Respond("POST /jobs", [userId |-> userId],
                            [code |-> 202, job_id |-> Len(jobs) + 1,
                             status |-> createJob(jobs, jobRequest(body), userId)[Len(jobs) + 1].status])
  /\ UNCHANGED <<cachedPrimes, sieveLimit, signingKeys, usersKv, requests>>

\* processJob after its timer, up to its end
ProcessJob ==
  /\ Running
  /\ \E i \in DOMAIN jobs, large \in LargeOutcomes :
       /\ jobs[i].pc = "timer"
       /\ \E outcome \in {processBody(Cur, jobs[i].request, large)} :
            /\ jobs' = [jobs EXCEPT ![i] = processJobEnd(jobs[i], outcome)]
            /\ cachedPrimes' = outcome.e.cachedPrimes
            /\ sieveLimit' = outcome.e.sieveLimit
  /\ NoResponse
  /\ UNCHANGED <<signingKeys, posts, usersKv, requests>>

\* A route that hands out the result whatever the status
jobResultAnyStatus(js, id) ==
  IF ~(id \in DOMAIN js /\ js[id].inMap) THEN [code |-> 404, result |-> None]
  ELSE [code |-> 200, result |-> js[id].result]

\* GET /jobs/:job_id/result
jobResult(js, id) ==
  IF ~(id \in DOMAIN js /\ js[id].inMap) THEN [code |-> 404, result |-> None]
  ELSE IF js[id].status # "completed" THEN [code |-> 400, result |-> None]
  ELSE [code |-> 200, result |-> js[id].result]

GetJobResult ==
  /\ Running
  /\ \E id \in 1..MaxJobs :
       Respond("GET /jobs/:job_id/result", [job_id |-> id], jobResult(jobs, id))
  /\ UNCHANGED <<cachedPrimes, sieveLimit, signingKeys, jobs, posts, usersKv, requests>>

\* The life of the jobs of one caller, with every kind of body
NextJobs ==
  \/ PostJobsCheck({None})
  \/ PostJobsBody(JobBodies)
  \/ ProcessJob
  \/ GetJobResult

SpecJobs == InitEngine /\ [][NextJobs]_vars

\* pending -> running -> completed or failed
Rank(status) == IF status = "pending" THEN 0 ELSE IF status = "running" THEN 1 ELSE 2

StatusForward(old, new) ==
  /\ Rank(new.status) >= Rank(old.status)
  /\ Finished(old) => new.status = old.status /\ new.result = old.result /\ new.error = old.error

ResultIffCompleted(job) ==
  /\ job.result # None <=> job.status = "completed"
  /\ job.error # None <=> job.status = "failed"

ResultOnlyOfCompleted ==
  call.op = "GET /jobs/:job_id/result" =>
    /\ ret.result # None => ret.code = 200
    /\ ret.code = 200 => /\ call.args.job_id \in DOMAIN jobs
                         /\ jobs[call.args.job_id].status = "completed"
                         /\ ret.result = jobs[call.args.job_id].result

\* C26: a job's status only moves forward along pending, running, completed
\* or failed; a completed or failed job keeps its status, result and error;
\* result is set exactly when the status is completed and error exactly when
\* it is failed; GET /jobs/:id/result returns a result only for a completed
\* job.
C26_StatusOnlyForward ==
  /\ [](ResultOnlyOfCompleted /\ \A i \in DOMAIN jobs : ResultIffCompleted(jobs[i]))
  /\ [][\A i \in DOMAIN jobs : i \in DOMAIN jobs' /\ StatusForward(jobs[i], jobs'[i])]_vars

\* C26 witness: the result of a completed job is fetched while another job
\* has failed with an error and a third is still running.
C26_Witness ==
  /\ call.op = "GET /jobs/:job_id/result"
  /\ ret.code = 200
  /\ ret.result # None
  /\ \E i \in DOMAIN jobs : jobs[i].status = "failed" /\ jobs[i].error # None
  /\ \E i \in DOMAIN jobs : jobs[i].status = "running"

\* C27: every job accepted by createJob reaches status completed or failed,
\* whatever request that passes the job schema it carries: once its timer
\* has fired and processJob has taken up the computation, the job is
\* completed or failed, and none is left running by a computation that
\* never returns.
C27_EveryJobFinishes ==
  \A i \in DOMAIN jobs : jobs[i].pc # "timer" => Finished(jobs[i])

\* The POST /jobs requests of every caller, each with a job that completes
OneBody ==
  {[n |-> Str(3), n_type |-> "index", mode |-> "count", k |-> Some(1), w |-> None,
    include |-> Some(<<"primes">>), validate |-> "dual"]}

NextPosts ==
  \/ PostJobsCheck(UserIds)
  \/ PostJobsBody(OneBody)
  \/ ProcessJob
  \/ GetJobResult

SpecPosts == InitEngine /\ [][NextPosts]_vars

\* C28: at every moment the number of pending or running jobs of every
\* user is at most the asyncJobs limit of the user's tier, and the number of
\* all pending or running jobs counted for an unauthenticated caller at most
\* the free-tier limit, also when POST /jobs requests interleave at their
\* await points.
C28_ActiveJobsWithinLimit ==
  \A userId \in UserIds :
    (userId # None \/ \A i \in DOMAIN jobs : jobs[i].userId = None)
      => countUserJobs(jobs, userId) <= limitOf(userId)

(***************************************************************************)
(* The API key store: validateApiKey, updateKeyLastUsed and revokeApiKey   *)
(* of src/api/src/services/usage-tracker.ts, called by the middleware of   *)
(* src/api/src/middleware/auth.ts and by the revoke route.                 *)
(*                                                                         *)
(* `usersKv` is the KV entry apikey:<hash> of one key of valid format and  *)
(* without expires_at.  Each of `requests` is one request from its arrival *)
(* to its end: an authenticated request reads the entry, and its deferred  *)
(* updateKeyLastUsed writes the record it read back later; a revocation    *)
(* reads the entry and writes it back as revoked.  Every kv.get and kv.put *)
(* is an await point at which the other requests run.                      *)
(***************************************************************************)
\* validateApiKey: the stored record if it is active, otherwise null
validateApiKey(kv) ==
  IF kv = None THEN None
  ELSE IF kv[1].status # "active" THEN None
  ELSE kv

\* updatedKey of updateKeyLastUsed
updatedKey(apiKey) == [apiKey EXCEPT !.last_used_at = Some("now")]

\* revokedKey of revokeApiKey
revokedKey(stored) == [stored EXCEPT !.status = "revoked"]

\* The middleware up to waitUntil(updateKeyLastUsed(kv, keyRecord)): 401, or
\* the request goes on with the record validateApiKey returned
AuthBegin ==
  /\ Idle
  /\ \E r \in RequestIds :
       /\ requests[r].pc = "idle"
       /\ requests' = [requests EXCEPT ![r] =
            IF validateApiKey(usersKv) = None THEN [pc |-> "401"]
            ELSE [pc |-> "accepted", keyRecord |-> validateApiKey(usersKv)[1]]]
  /\ UNCHANGED <<cachedPrimes, sieveLimit, signingKeys, call, ret, jobs, posts, usersKv>>

\* The kv.put of the deferred updateKeyLastUsed lands
UpdateLands ==
  /\ Idle
  /\ \E r \in RequestIds :
       /\ requests[r].pc = "accepted"
       /\ usersKv' = Some(updatedKey(requests[r].keyRecord))
       /\ requests' = [requests EXCEPT ![r] = [pc |-> "done"]]
  /\ UNCHANGED <<cachedPrimes, sieveLimit, signingKeys, call, ret, jobs, posts>>

\* revokeApiKey up to its kv.put: false without a stored record
RevokeBegin ==
  /\ Idle
  /\ \E r \in RequestIds :
       /\ requests[r].pc = "idle"
       /\ requests' = [requests EXCEPT ![r] =
            IF usersKv = None THEN [pc |-> "not found"]
            ELSE [pc |-> "revoking", stored |-> usersKv[1]]]
  /\ UNCHANGED <<cachedPrimes, sieveLimit, signingKeys, call, ret, jobs, posts, usersKv>>

\* The kv.put of revokeApiKey lands and it returns true
RevokeLands ==
  /\ Idle
  /\ \E r \in RequestIds :
       /\ requests[r].pc = "revoking"
       /\ usersKv' = Some(revokedKey(requests[r].stored))
       /\ requests' = [requests EXCEPT ![r] = [pc |-> "revoked"]]
  /\ UNCHANGED <<cachedPrimes, sieveLimit, signingKeys, call, ret, jobs, posts>>

NextKeys ==
  \/ AuthBegin
  \/ UpdateLands
  \/ RevokeBegin
  \/ RevokeLands

SpecKeys == InitEngine /\ [][NextKeys]_vars

\* revokeApiKey has returned true
Revoked == \E r \in RequestIds : requests[r].pc = "revoked"

\* C29: once revokeApiKey has completed successfully for a key, no later
\* validateApiKey call for that key returns a key record, also when the
\* deferred updateKeyLastUsed write of a request that was in flight lands
\* after the revocation.
C29_RevokedNeverAccepted ==
  [][Revoked => \A r \in RequestIds :
       requests'[r].pc = "accepted" => requests[r].pc = "accepted"]_vars


====
